---------------------------- MODULE Spec2Model ----------------------------
(***************************************************************************)
(* QoS routing core of bilgisayar-aglari: the attributed graph, the        *)
(* MetricsEngine, the four optimizers (ACO, GA, Q-Learning, SA) behind the  *)
(* adapter's run(), and the comparison harness (compare,                    *)
(* run_single_scenario).                                                    *)
(*                                                                          *)
(* Numbers.  Costs are exact rationals n/d (d = sum of the weights, the     *)
(* divisor of Weights.normalized) plus a flag for the infeasibility         *)
(* penalty.  Reliabilities are powers of 0.99: an attribute k stands for    *)
(* the reliability 0.99^k, so -log(r) is k units.  Paths are sequences,     *)
(* Python index i is TLA+ index i+1.                                        *)
(***************************************************************************)
EXTENDS Integers, Sequences, FiniteSets, TLC

(***************************************************************************)
(* Bounds of the model                                                     *)
(***************************************************************************)
\* iterations of simulated_annealing's loop (parameter max_iter)
MaxIter == 2
\* GA population size and generations (parameters pop_size, generations)
PopSize == 2
Generations == 2
\* Q-Learning episodes (parameter episodes)
Episodes == 2
\* ACO iterations and ants per iteration (parameters num_iterations, num_ants)
NumIterations == 2
NumAnts == 2

(***************************************************************************)
(* Graph model (topology.generate_graph)                                   *)
(***************************************************************************)
GNodes == 0 .. 3
\* a node id that is not in the graph
Absent == 4
AllEdges == { e \in SUBSET GNodes : Cardinality(e) = 2 }

\* capacities an edge may carry, below and above the demand
CapLow == 5
CapHigh == 20
\* the bandwidth demand B of a request; an optional demand is <<>> (None)
\* or <<B>>
Demand == 10
NoDemand == << >>
\* a path that is None or [] is the empty sequence
NoPath == << >>

\* link delay: 1 ms on edges whose endpoints differ in parity, else 2 ms
LinkDelayOf(e) == IF \E u \in e, v \in e : u # v /\ (u + v) % 2 = 1 THEN 1 ELSE 2

\* generate_graph: every edge gets link_delay_ms = link_delay,
\* bandwidth_mbps = bandwidth = capacity_mbps, link_reliability;
\* every node processing_delay_ms and node_reliability.
MkGraph(E, cap) ==
    [ E     |-> E,
      cap   |-> cap,
      delay |-> [e \in E |-> LinkDelayOf(e)],
      lrel  |-> [e \in E |-> 1],
      proc  |-> [n \in GNodes |-> 1],
      nrel  |-> [n \in GNodes |-> 2] ]

Topologies ==
    { { {0,1}, {1,2}, {2,3}, {0,2} },                  \* line with a chord
      { {0,1}, {1,2}, {2,3}, {0,3} },                  \* ring
      { {0,1}, {0,2}, {1,3}, {2,3} },                  \* diamond
      { {0,1}, {1,2}, {0,2}, {2,3}, {1,3} },           \* two triangles
      { {0,1}, {1,2}, {0,2} },                         \* triangle, node 3 isolated
      AllEdges }                                       \* complete graph

Graphs == UNION { { MkGraph(E, cap) : cap \in [E -> {CapLow, CapHigh}] } : E \in Topologies }

HasNode(g, n) == n \in GNodes
\* G.has_edge(u, v) of an undirected graph without self-loops
HasEdgeDirected(g, u, v) == u < v /\ {u, v} \in g.E
HasEdge(g, u, v) == u # v /\ {u, v} \in g.E
\* G.neighbors(u), in adjacency order (ascending ids)
Neighbors(g, u) == { v \in GNodes : HasEdge(g, u, v) }

\* attribute reads, one per key the code uses
EdgeCapacityMbps(g, u, v) == g.cap[{u, v}]
EdgeLinkDelay(g, u, v) == g.delay[{u, v}]

(***************************************************************************)
(* Sequences helpers                                                       *)
(***************************************************************************)
Last(p) == p[Len(p)]
Hops(p) == IF Len(p) < 2 THEN {} ELSE 1 .. (Len(p) - 1)
NoRepeat(p) == \A i \in 1 .. Len(p), j \in 1 .. Len(p) : i # j => p[i] # p[j]
InPath(n, p) == \E i \in 1 .. Len(p) : p[i] = n
\* Python p[:k] and p[k:]
Prefix(p, k) == SubSeq(p, 1, k)
Suffix(p, k) == SubSeq(p, k + 1, Len(p))

RECURSIVE SumOver(_, _)
SumOver(f, S) == IF S = {} THEN 0
                 ELSE LET x == CHOOSE x \in S : TRUE IN f[x] + SumOver(f, S \ {x})

MinOf(S) == CHOOSE x \in S : \A y \in S : x <= y

\* simple paths that extend p to t using only edges of E
RECURSIVE PathsFrom(_, _, _)
PathsFrom(E, p, t) ==
    IF Last(p) = t THEN {p}
    ELSE UNION { PathsFrom(E, Append(p, v), t) :
                   v \in { x \in GNodes : {Last(p), x} \in E /\ ~InPath(x, p) } }
\* simple paths from s to t using only edges of E
SimplePaths(E, s, t) == PathsFrom(E, << s >>, t)

(***************************************************************************)
(* Costs                                                                   *)
(***************************************************************************)
\* float('inf')
Inf == [inf |-> TRUE, pen |-> FALSE, n |-> 0, d |-> 1]
Fin(pen, n, d) == [inf |-> FALSE, pen |-> pen, n |-> n, d |-> d]
\* value of a finite cost: n/d, plus infeasible_penalty when pen; every n/d
\* of the model is below the penalty, so the order is lexicographic
CostLT(a, b) ==
    /\ ~a.inf
    /\ \/ b.inf
       \/ (~a.pen /\ b.pen)
       \/ (a.pen = b.pen /\ a.n * b.d < b.n * a.d)
CostEQ(a, b) ==
    \/ (a.inf /\ b.inf)
    \/ (~a.inf /\ ~b.inf /\ a.pen = b.pen /\ a.n * b.d = b.n * a.d)

(***************************************************************************)
(* MetricsEngine                                                           *)
(***************************************************************************)
ReferenceBandwidth == 1000

\* A weight triple is (wd, wr, ws)/den: the driver passes the floats wd/den,
\* wr/den, ws/den.  Weights.normalized divides by their sum, so den cancels.
\* Weights.normalized raises ValueError when the sum is <= 0
WeightsTotal(w) == w.wd + w.wr + w.ws
NormalizedRaises(w) == WeightsTotal(w) <= 0

\* MetricsEngine.compute raises ValueError: short path, missing edge (_edge)
ComputeRaises(g, path) ==
    \/ Len(path) < 2
    \/ \E i \in Hops(path) : ~HasEdge(g, path[i], path[i+1])

\* feasible = True; if demand_mbps is not None: feasible = demand_mbps <= bottleneck
FeasibleForDemandStrict(demand, bottleneck) ==
    IF demand = NoDemand THEN TRUE ELSE demand[1] < bottleneck
FeasibleForDemand(demand, bottleneck) ==
    IF demand = NoDemand THEN TRUE ELSE demand[1] <= bottleneck

\* MetricsEngine.compute, for a path on which it does not raise
Compute(g, path, demand) ==
    LET hops == Hops(path)
        linkDelay == SumOver([i \in hops |-> g.delay[{path[i], path[i+1]}]], hops)
        inner == { i \in 1 .. Len(path) : 1 < i /\ i < Len(path) }
        procSum == SumOver([i \in inner |-> g.proc[path[i]]], inner)
        nodeRel == SumOver([i \in 1 .. Len(path) |-> g.nrel[path[i]]], 1 .. Len(path))
        linkRel == SumOver([i \in hops |-> g.lrel[{path[i], path[i+1]}]], hops)
        res == SumOver([i \in hops |-> ReferenceBandwidth \div g.cap[{path[i], path[i+1]}]], hops)
        bottleneck == MinOf({ g.cap[{path[i], path[i+1]}] : i \in hops })
    IN  [ total_delay_ms |-> linkDelay + procSum,
          reliability_cost |-> nodeRel + linkRel,
          resource_cost |-> res,
          bottleneck_capacity_mbps |-> bottleneck,
          feasible_for_demand |-> FeasibleForDemand(demand, bottleneck) ]

\* MetricsEngine.weighted_sum, for weights on which normalized() does not raise
WeightedSumNoPenalty(m, w) ==
    Fin(FALSE,
        w.wd * m.total_delay_ms + w.wr * m.reliability_cost + w.ws * m.resource_cost,
        WeightsTotal(w))
WeightedSum(m, w) ==
    Fin(~m.feasible_for_demand,
        w.wd * m.total_delay_ms + w.wr * m.reliability_cost + w.ws * m.resource_cost,
        WeightsTotal(w))

(***************************************************************************)
(* State                                                                   *)
(***************************************************************************)
VARIABLES
    \* the call run(algo, G, src, dst, w_delay, w_rel, w_res, params)
    algo, G, src, dst, w, params,
    \* where the call is, and what it gave its caller
    pc, result,
    \* simulated_annealing's locals
    sa_current, sa_current_score, sa_best, sa_best_score, sa_best_m, sa_iter, sa_cool,
    \* run_genetic_algorithm's locals
    ga_population, ga_attempts, ga_gen, ga_parents, ga_new_population,
    ga_best_path, ga_best_cost,
    \* QLearningAgent's fields and train's locals
    ql_q, ql_ep, ql_state, ql_path, ql_decays,
    \* _wrap_aco's locals
    aco_iter, aco_ant, aco_iteration_paths, aco_best_path, aco_best_cost,
    \* the graph objects' pheromone attribute, and the object run() works on
    pher, gobj,
    \* which entry point the driver called: run, compare, run_single_scenario
    call,
    \* compare's locals and what it returns
    cmp_num_runs, cmp_run_id, cmp_runs_table, cmp_summary_table, cmp_best_paths_by_algo,
    \* run_single_scenario's rows
    rs_runs_data,
    \* a direct call of the MetricsEngine: compute(path, demand_mbps) on G and
    \* weighted_sum(metrics, w), and what the call gave
    eng_path, eng_demand, eng_out,
    \* a direct call of the summary code: the runs of one algorithm and the
    \* summary made of them
    sm_runs, sm_out,
    \* what the first of two identical invocations of run() returned
    rr_first,
    \* the driver's request that the optimizer under way stop
    cancel_flag,
    \* a direct call ant_walk(G, src, dst, demand_bw): its locals current,
    \* path and visited, and how it ended
    ant,
    \* the calls made so far in a direct sequence of update_pheromone and evaporate_pheromone calls
    ph_calls,
    \* a direct call crossover(parent1, parent2): the parents and the children returned
    xo,
    \* the exploration rate of a QLearningAgent through train(): epsilon, the episodes asked for and the episodes done
    eps,
    \* a direct call of get_best_path: the Q-table, min_bandwidth, what it returned
    bp

inputVars == << algo, G, src, dst, w, params >>
saVars == << sa_current, sa_current_score, sa_best, sa_best_score, sa_best_m, sa_iter, sa_cool >>
gaVars == << ga_population, ga_attempts, ga_gen, ga_parents, ga_new_population,
            ga_best_path, ga_best_cost >>
qlVars == << ql_q, ql_ep, ql_state, ql_path, ql_decays >>
acoVars == << aco_iter, aco_ant, aco_iteration_paths, aco_best_path, aco_best_cost >>
\* the variables of the direct calls and of the driver; the optimizers and
\* the harness leave them alone
pureVars == << eng_path, eng_demand, eng_out, sm_runs, sm_out, rr_first, cancel_flag, ant, ph_calls, xo, eps, bp >>
cmpVars == << call, cmp_num_runs, cmp_run_id, cmp_runs_table, cmp_summary_table,
             cmp_best_paths_by_algo, rs_runs_data, pureVars >>
vars == << inputVars, pc, result, saVars, gaVars, qlVars, acoVars, pher, gobj, cmpVars >>
\* what each optimizer leaves alone
notSA == << gaVars, qlVars, acoVars, pher, gobj, cmpVars >>
notGA == << saVars, qlVars, acoVars, pher, gobj, cmpVars >>
notQL == << saVars, gaVars, acoVars, pher, gobj, cmpVars >>
notACO == << saVars, gaVars, qlVars, gobj, cmpVars >>

\* weight triples a driver passes: normalized, not normalized, all zero
WeightSets ==
    { [wd |-> 1, wr |-> 0, ws |-> 0, den |-> 1],
      [wd |-> 0, wr |-> 0, ws |-> 1, den |-> 1],
      [wd |-> 1, wr |-> 1, ws |-> 1, den |-> 3],
      [wd |-> 1, wr |-> 1, ws |-> 1, den |-> 1],
      [wd |-> 0, wr |-> 0, ws |-> 0, den |-> 1] }

\* params: the driver puts the demand under every key (main.py
\* collect_algo_params) or gives none
ParamSets ==
    { [demand_bw |-> d, min_bandwidth |-> d, max_iter |-> MaxIter,
       pop_size |-> PopSize, generations |-> Generations,
       episodes |-> Episodes, alpha |-> 1, gamma |-> 1,
       num_iterations |-> NumIterations, num_ants |-> NumAnts] :
      d \in {NoDemand, << Demand >>} }

Pending == [status |-> "pending", path |-> NoPath, total_cost |-> Inf, notes |-> ""]
Returned(path, cost, notes) == [status |-> "returned", path |-> path, total_cost |-> cost, notes |-> notes]
\* an exception leaves run()
Raised(kind) == [status |-> "raised", path |-> NoPath, total_cost |-> Inf, notes |-> kind]

NoMetrics == [total_delay_ms |-> 0, reliability_cost |-> 0, resource_cost |-> 0,
              bottleneck_capacity_mbps |-> 0, feasible_for_demand |-> TRUE]

SaInit ==
    /\ sa_current = NoPath /\ sa_current_score = Inf
    /\ sa_best = NoPath /\ sa_best_score = Inf /\ sa_best_m = NoMetrics
    /\ sa_iter = 0 /\ sa_cool = 0

GaInit ==
    /\ ga_population = << >> /\ ga_attempts = 0 /\ ga_gen = 0
    /\ ga_parents = << >> /\ ga_new_population = << >>
    /\ ga_best_path = NoPath /\ ga_best_cost = Inf

QlInit ==
    /\ ql_q = [sa \in GNodes \X GNodes |-> 0]
    /\ ql_ep = 0 /\ ql_state = 0 /\ ql_path = << >> /\ ql_decays = 0

AcoInit ==
    /\ aco_iter = 0 /\ aco_ant = 0 /\ aco_iteration_paths = << >>
    /\ aco_best_path = NoPath /\ aco_best_cost = Inf

\* the pheromone attribute of a graph object: absent on every edge, or a
\* value on every edge (in units of 1/PhScale)
NoPheromone == << >>

\* no direct call is under way
PureInit ==
    /\ eng_path = << >> /\ eng_demand = << >> /\ eng_out = << >>
    /\ sm_runs = << >> /\ sm_out = << >> /\ rr_first = << >> /\ bp = << >> /\ eps = << >> /\ xo = << >> /\ ph_calls = 0
    /\ cancel_flag = FALSE /\ ant = << >>

CmpInit ==
    /\ cmp_num_runs = 0 /\ cmp_run_id = 0 /\ cmp_runs_table = << >>
    /\ cmp_summary_table = << >> /\ cmp_best_paths_by_algo = << >>
    /\ rs_runs_data = << >>

\* the driver calls run(algo, G, src, dst, w, params)
InitRun(algos, graphs, srcs, dsts, weights, paramsets, pheromones) ==
    /\ call = "run" /\ CmpInit /\ PureInit
    /\ algo \in algos
    /\ G \in graphs
    /\ src \in srcs
    /\ dst \in dsts
    /\ w \in weights
    /\ params \in paramsets
    /\ pc = "start"
    /\ result = Pending
    /\ SaInit /\ GaInit /\ QlInit /\ AcoInit
    /\ gobj = "G"
    /\ \E x \in pheromones : pher = [o \in {"G", "G_copy"} |-> [e \in G.E |-> x]]

(***************************************************************************)
(* Simulated annealing (SA.py) behind _wrap_sa                             *)
(***************************************************************************)
\* the edge attribute SA filters on: "bandwidth", else "bandwidth_mbps"
EdgeBandwidthAmple(g, e) == ReferenceBandwidth
EdgeBandwidth(g, e) == g.cap[e]

PathIsFeasible(g, path, demand) ==
    \/ demand = NoDemand
    \/ \A i \in Hops(path) : ~(EdgeBandwidth(g, {path[i], path[i+1]}) < demand[1])

\* the edges of build_feasible_subgraph(G, demand); its nodes are G's
BuildFeasibleSubgraphUnfiltered(g, demand) == g.E
BuildFeasibleSubgraph(g, demand) ==
    IF demand = NoDemand THEN g.E
    ELSE { e \in g.E : EdgeBandwidth(g, e) >= demand[1] }

PathDelay(g, p) == SumOver([i \in Hops(p) |-> g.delay[{p[i], p[i+1]}]], Hops(p))
\* nx.shortest_path(Gf, s, t, weight="link_delay"): a minimum-delay path;
\* which one among equals is the library's choice
ShortestPaths(g, E, s, t) ==
    LET ps == SimplePaths(E, s, t)
    IN  { p \in ps : \A q \in ps : PathDelay(g, p) <= PathDelay(g, q) }

\* _wrap_sa: demand_bw is None unless params carries it
SaDemand == params.demand_bw
\* T0 = 5.0, alpha = 0.995: T < 1e-6 after this many coolings
CoolLimit == 3078

\* _wrap_sa up to simulated_annealing's initial solution
SaStart ==
    /\ pc = "start" /\ algo = "SA"
    /\ LET Gf == BuildFeasibleSubgraph(G, SaDemand)
           starts == ShortestPaths(G, Gf, src, dst)
       IN  IF ~HasNode(G, src)
           THEN \* nx.NodeNotFound is not caught
                /\ pc' = "done" /\ result' = Raised("NodeNotFound")
                /\ UNCHANGED saVars
           ELSE IF starts = {}
           THEN \* nx.NetworkXNoPath: return None, inf, None
                /\ pc' = "sa_final"
                /\ UNCHANGED << result, saVars >>
           ELSE \E current \in starts :
                  IF ComputeRaises(G, current) \/ NormalizedRaises(w)
                  THEN /\ pc' = "done" /\ result' = Raised("ValueError")
                       /\ UNCHANGED saVars
                  ELSE LET m == Compute(G, current, SaDemand)
                           score == WeightedSum(m, w)
                       IN  /\ sa_current' = current /\ sa_current_score' = score
                           /\ sa_best' = current /\ sa_best_score' = score /\ sa_best_m' = m
                           /\ sa_iter' = 0 /\ sa_cool' = 0
                           /\ pc' = IF params.max_iter > 0 THEN "sa_loop" ELSE "sa_final"
                           /\ UNCHANGED result
    /\ UNCHANGED << inputVars, notSA >>

\* (best replaced by every accepted candidate)
ImprovesBestAlways(cand_score, best_score) == TRUE
\* if cand_score < best_score
ImprovesBest(cand_score, best_score) == CostLT(cand_score, best_score)

\* one iteration of the annealing loop
SaStep ==
    /\ pc = "sa_loop" /\ algo = "SA"
    /\ sa_iter < params.max_iter
    /\ LET Gf == BuildFeasibleSubgraph(G, SaDemand)
           more == sa_iter + 1 < params.max_iter
       IN  IF Len(sa_current) <= 2
           THEN \* break
                /\ pc' = "sa_final" /\ UNCHANGED saVars
           ELSE \E i \in 1 .. (Len(sa_current) - 2) :
                  LET pivot == sa_current[i + 1]
                      tails == ShortestPaths(G, Gf, pivot, dst)
                  IN  IF tails = {}
                      THEN /\ sa_cool' = sa_cool + 1 /\ sa_iter' = sa_iter + 1
                           /\ pc' = IF more THEN "sa_loop" ELSE "sa_final"
                           /\ UNCHANGED << sa_current, sa_current_score, sa_best, sa_best_score, sa_best_m >>
                      ELSE \E tail \in tails :
                        LET candidate == Prefix(sa_current, i) \o tail
                        IN  IF ~PathIsFeasible(G, candidate, SaDemand)
                            THEN /\ sa_cool' = sa_cool + 1 /\ sa_iter' = sa_iter + 1
                                 /\ pc' = IF more THEN "sa_loop" ELSE "sa_final"
                                 /\ UNCHANGED << sa_current, sa_current_score, sa_best, sa_best_score, sa_best_m >>
                            ELSE LET cand_m == Compute(G, candidate, SaDemand)
                                     cand_score == WeightedSum(cand_m, w)
                                 IN  \E accept \in BOOLEAN :
                                       \* delta < 0 accepts, delta = 0 accepts
                                       \* (exp(0) = 1 > random()), delta > 0 may
                                       /\ ~CostLT(sa_current_score, cand_score) => accept
                                       /\ IF accept
                                          THEN /\ sa_current' = candidate
                                               /\ sa_current_score' = cand_score
                                               /\ IF ImprovesBest(cand_score, sa_best_score)
                                                  THEN /\ sa_best' = candidate
                                                       /\ sa_best_score' = cand_score
                                                       /\ sa_best_m' = cand_m
                                                  ELSE UNCHANGED << sa_best, sa_best_score, sa_best_m >>
                                          ELSE UNCHANGED << sa_current, sa_current_score, sa_best, sa_best_score, sa_best_m >>
                                       /\ sa_cool' = sa_cool + 1 /\ sa_iter' = sa_iter + 1
                                       /\ pc' = IF more /\ sa_cool + 1 < CoolLimit THEN "sa_loop" ELSE "sa_final"
    /\ UNCHANGED << inputVars, result, notSA >>

\* simulated_annealing's final check and _wrap_sa's packaging
SaFinish ==
    /\ pc = "sa_final" /\ algo = "SA"
    /\ IF sa_best = NoPath \/ ~PathIsFeasible(G, sa_best, SaDemand)
       THEN result' = Returned(NoPath, Inf, "no_path")
       ELSE result' = Returned(sa_best, sa_best_score, "OK")
    /\ pc' = "done"
    /\ UNCHANGED << inputVars, saVars, notSA >>

NextSA == SaStart \/ SaStep \/ SaFinish

InitSA == InitRun({"SA"}, Graphs, GNodes \cup {Absent}, GNodes, WeightSets, ParamSets, {NoPheromone})
SpecSA == InitSA /\ [][NextSA]_vars

(***************************************************************************)
(* Genetic algorithm (genetic_algorithm.py) behind _wrap_genetic           *)
(***************************************************************************)
\* the walk of generate_random_path from the partial path p: every
\* unvisited neighbour may be drawn; a dead end gives None
RECURSIVE WalkOutcomes(_, _, _)
WalkOutcomes(g, p, t) ==
    IF Last(p) = t THEN {p}
    ELSE LET unvisited == { v \in Neighbors(g, Last(p)) : ~InPath(v, p) }
         IN  IF unvisited = {} THEN {NoPath}
             ELSE UNION { WalkOutcomes(g, Append(p, v), t) : v \in unvisited }

\* the values generate_random_path(graph, s, t) may return
GenerateRandomPath(g, s, t) ==
    IF s = t THEN { << s >> }
    ELSE IF ~HasNode(g, s) THEN {NoPath}
    ELSE WalkOutcomes(g, << s >>, t)

\* create_initial_population gives up after pop_size * 10 attempts
MaxAttemptsFactor == 10

\* the score selection gives a path: inf when the engine raises
SelectionScore(g, path, wts) ==
    IF ComputeRaises(g, path) \/ NormalizedRaises(wts) THEN Inf
    ELSE WeightedSum(Compute(g, path, NoDemand), wts)

\* list.sort(key = cost) is stable: x goes after the elements that do not
\* cost more
RECURSIVE InsertByCost(_, _, _, _)
InsertByCost(g, wts, sorted, x) ==
    IF sorted = << >> THEN << x >>
    ELSE IF CostLT(SelectionScore(g, x, wts), SelectionScore(g, Head(sorted), wts))
         THEN << x >> \o sorted
         ELSE << Head(sorted) >> \o InsertByCost(g, wts, Tail(sorted), x)
RECURSIVE SortByCost(_, _, _)
SortByCost(g, wts, pop) ==
    IF pop = << >> THEN << >>
    ELSE InsertByCost(g, wts, SortByCost(g, wts, Prefix(pop, Len(pop) - 1)), Last(pop))

\* selection raises IndexError when it indexes past the scored list
SelectionRaises(pop, num_parents) == num_parents > Len(pop)
SelectionUnsorted(g, wts, pop, num_parents) == Prefix(pop, num_parents)
Selection(g, wts, pop, num_parents) == Prefix(SortByCost(g, wts, pop), num_parents)

\* position of the first occurrence of n in p (list.index)
IndexOf(p, n) == MinOf({ i \in 1 .. Len(p) : p[i] = n })

\* the pairs of children crossover(parent1, parent2) may return
CrossoverWithoutCutNode(parent1, parent2) ==
    LET common_nodes == SelectSeq(parent1, LAMBDA n : InPath(n, parent2))
        candidates == IF Len(common_nodes) > 2
                      THEN { common_nodes[i] : i \in 2 .. (Len(common_nodes) - 1) }
                      ELSE {}
    IN  IF candidates = {} THEN { << parent1, parent2 >> }
        ELSE { << Prefix(parent1, IndexOf(parent1, cut) - 1) \o Suffix(parent2, IndexOf(parent2, cut)),
                  Prefix(parent2, IndexOf(parent2, cut) - 1) \o Suffix(parent1, IndexOf(parent1, cut)) >> :
               cut \in candidates }
Crossover(parent1, parent2) ==
    LET common_nodes == SelectSeq(parent1, LAMBDA n : InPath(n, parent2))
        candidates == IF Len(common_nodes) > 2
                      THEN { common_nodes[i] : i \in 2 .. (Len(common_nodes) - 1) }
                      ELSE {}
    IN  IF candidates = {} THEN { << parent1, parent2 >> }
        ELSE { << Prefix(parent1, IndexOf(parent1, cut)) \o Suffix(parent2, IndexOf(parent2, cut)),
                  Prefix(parent2, IndexOf(parent2, cut)) \o Suffix(parent1, IndexOf(parent1, cut)) >> :
               cut \in candidates }

\* the tails a mutation at Python index cut_index may append
MutationTails(g, path, cut_index, target) ==
    GenerateRandomPath(g, path[cut_index + 1], target) \ {NoPath}
\* the paths mutation(path, graph, rate, target) may return, 0 < rate < 1
Mutation(g, path, target) ==
    {path} \cup
    IF Len(path) < 3 THEN {}
    ELSE UNION { { Prefix(path, cut_index) \o new_tail :
                     new_tail \in MutationTails(g, path, cut_index, target) } :
                 cut_index \in 1 .. (Len(path) - 2) }

\* one pass of create_initial_population's loop
GaPopulate ==
    /\ pc = "start" /\ algo = "GA"
    /\ IF Len(ga_population) < params.pop_size /\ ga_attempts <= params.pop_size * MaxAttemptsFactor
       THEN \E path \in GenerateRandomPath(G, src, dst) :
              /\ ga_population' = IF path # NoPath THEN Append(ga_population, path)
                                  ELSE ga_population
              /\ ga_attempts' = ga_attempts + 1
              /\ UNCHANGED pc
       ELSE /\ pc' = "ga_gen"
            /\ UNCHANGED << ga_population, ga_attempts >>
    /\ UNCHANGED << inputVars, result, ga_gen, ga_parents, ga_new_population,
                    ga_best_path, ga_best_cost, notGA >>

\* the head of one generation: selection and the best-so-far update
GaSelect ==
    /\ pc = "ga_gen" /\ algo = "GA"
    /\ ga_gen < params.generations
    /\ LET num_parents == params.pop_size \div 2
       IN  IF SelectionRaises(ga_population, num_parents)
           THEN /\ pc' = "done" /\ result' = Raised("IndexError")
                /\ UNCHANGED gaVars
           ELSE LET parents == Selection(G, w, ga_population, num_parents)
                IN  IF parents = << >>
                    THEN \* break
                         /\ pc' = "ga_final"
                         /\ UNCHANGED << result, gaVars >>
                    ELSE IF ComputeRaises(G, parents[1]) \/ NormalizedRaises(w)
                    THEN \* except: continue
                         /\ ga_gen' = ga_gen + 1
                         /\ UNCHANGED << pc, result, ga_population, ga_attempts, ga_parents,
                                         ga_new_population, ga_best_path, ga_best_cost >>
                    ELSE LET current_cost == WeightedSum(Compute(G, parents[1], NoDemand), w)
                         IN  /\ IF CostLT(current_cost, ga_best_cost)
                                THEN ga_best_cost' = current_cost /\ ga_best_path' = parents[1]
                                ELSE UNCHANGED << ga_best_cost, ga_best_path >>
                             /\ ga_parents' = parents
                             /\ ga_new_population' = << >>
                             /\ pc' = "ga_breed"
                             /\ UNCHANGED << result, ga_population, ga_attempts, ga_gen >>
    /\ UNCHANGED << inputVars, notGA >>

\* one pass of the breeding loop: two parents, crossover, two mutations
GaBreed ==
    /\ pc = "ga_breed" /\ algo = "GA"
    /\ \E i1 \in 1 .. Len(ga_parents), i2 \in 1 .. Len(ga_parents) :
         \E cs \in Crossover(ga_parents[i1], ga_parents[i2]) :
           \E c1 \in Mutation(G, cs[1], dst), c2 \in Mutation(G, cs[2], dst) :
             LET with1 == Append(ga_new_population, c1)
                 with2 == IF Len(with1) < params.pop_size THEN Append(with1, c2) ELSE with1
             IN  IF Len(with2) < params.pop_size
                 THEN /\ ga_new_population' = with2
                      /\ UNCHANGED << pc, ga_population, ga_gen >>
                 ELSE /\ ga_population' = with2
                      /\ ga_new_population' = << >>
                      /\ ga_gen' = ga_gen + 1
                      /\ pc' = "ga_gen"
    /\ UNCHANGED << inputVars, result, ga_attempts, ga_parents, ga_best_path, ga_best_cost, notGA >>

\* the generations are over: _wrap_genetic packs best_path and best_cost
GaFinish ==
    /\ algo = "GA"
    /\ \/ pc = "ga_final"
       \/ pc = "ga_gen" /\ ga_gen >= params.generations
    /\ IF ga_best_path = NoPath
       THEN result' = Returned(NoPath, Inf, "no_path")
       ELSE result' = Returned(ga_best_path, ga_best_cost, "OK")
    /\ pc' = "done"
    /\ UNCHANGED << inputVars, gaVars, notGA >>

NextGA == GaPopulate \/ GaSelect \/ GaBreed \/ GaFinish

\* the ring and the line with a chord, at most one edge below the demand
RunGraphs ==
    { g \in Graphs :
        /\ g.E \in { { {0,1}, {1,2}, {2,3}, {0,3} }, { {0,1}, {1,2}, {2,3}, {0,2} } }
        /\ Cardinality({ e \in g.E : g.cap[e] = CapLow }) <= 1 }
\* resource only, equal thirds, all zero
RunWeights == { x \in WeightSets : x.wd = 0 \/ x.den = 3 }
InitGA == InitRun({"GA"}, RunGraphs, {0, 1, 3, Absent}, {3}, RunWeights, ParamSets, {NoPheromone})
SpecGA == InitGA /\ [][NextGA]_vars

\* the same calls, and those with a population of one
PopSizeOne == [ps \in ParamSets |-> [ps EXCEPT !.pop_size = 1]]
InitGAPop == InitRun({"GA"}, RunGraphs, {0, 1, 3, Absent}, {3}, RunWeights,
                     ParamSets \cup { PopSizeOne[ps] : ps \in ParamSets }, {NoPheromone})
SpecGAPop == InitGAPop /\ [][NextGA]_vars

(***************************************************************************)
(* Q-Learning (q_learning.py, Q-Q-Learning/metrics.py) behind              *)
(* _wrap_qlearning                                                         *)
(***************************************************************************)
\* Q values and rewards are kept in units of 1/QScale
QScale == 100 * 100
\* _wrap_qlearning builds the agent without min_bandwidth: the default
AgentMinBandwidth == 0

\* QLearningAgent.get_valid_neighbors of an agent built with min_bandwidth:
\* the edge attribute "bandwidth"
ValidNeighbors(g, state, min_bandwidth) ==
    { n \in Neighbors(g, state) : g.cap[{state, n}] >= min_bandwidth }
\* the same for the agent _wrap_qlearning builds
GetValidNeighbors(g, state) == ValidNeighbors(g, state, AgentMinBandwidth)

\* the rewards of train
\* (RewardLoop with the reward of an ordinary step)
RewardLoopAsStep == (0 - 1) * QScale
RewardLoop == (0 - 1000) * QScale
RewardStep == (0 - 1) * QScale
RewardEngineFailed == 100 * QScale
\* 10000 / (total_cost + 1e-9), by the engine with demand min_bandwidth
RewardGoal(g, path, wts) ==
    IF ComputeRaises(g, path) \/ NormalizedRaises(wts) THEN RewardEngineFailed
    ELSE LET c == WeightedSum(Compute(g, path, << AgentMinBandwidth >>), wts)
         IN  IF c.pen \/ c.n = 0 THEN 0 ELSE (10000 * QScale * c.d) \div c.n

MaxOf(S) == CHOOSE x \in S : \A y \in S : x >= y

\* QLearningAgent.update_q
UpdateQ(g, q, state, action, reward, next_state, alpha, gamma) ==
    LET old_q == q[<< state, action >>]
        next_neighbors == GetValidNeighbors(g, next_state)
        max_future_q == IF next_neighbors # {}
                        THEN MaxOf({ q[<< next_state, n >>] : n \in next_neighbors })
                        ELSE 0
    IN  [q EXCEPT ![<< state, action >>] = old_q + alpha * (reward + gamma * max_future_q - old_q)]

\* QLearningAgent.choose_action: epsilon starts at 1.0 and stays above
\* epsilon_min, so every valid neighbour may be drawn; the greedy branch
\* draws among them too
ChooseAction(g, state) == GetValidNeighbors(g, state)

\* epsilon = 0.995^decays stops decaying once it is <= epsilon_min = 0.01
EpsilonDecaysMax == 919

\* (max() replaced by min(): the neighbour of lowest Q)
BestNextLowest(q, state, valid_neighbors) ==
    MinOf({ n \in valid_neighbors :
              \A m \in valid_neighbors : q[<< state, n >>] <= q[<< state, m >>] })
\* max(valid_neighbors, key=get_q): max() takes the first neighbour of
\* highest Q in adjacency order
BestNext(q, state, valid_neighbors) ==
    MinOf({ n \in valid_neighbors :
              \A m \in valid_neighbors : q[<< state, n >>] >= q[<< state, m >>] })

\* QLearningAgent.get_best_path from the partial path p, for an agent built
\* with min_bandwidth
RECURSIVE BestPathWith(_, _, _, _, _)
BestPathWith(g, q, p, t, min_bandwidth) ==
    IF Last(p) = t THEN p
    ELSE LET state == Last(p)
             valid_neighbors == { n \in ValidNeighbors(g, state, min_bandwidth) : ~InPath(n, p) }
         IN  IF valid_neighbors = {} THEN NoPath
             ELSE IF Len(p) + 1 > Cardinality(GNodes) THEN NoPath
             ELSE BestPathWith(g, q, Append(p, BestNext(q, state, valid_neighbors)), t,
                             min_bandwidth)
\* the same for the agent _wrap_qlearning builds
BestPathFrom(g, q, p, t) == BestPathWith(g, q, p, t, AgentMinBandwidth)
GetBestPath(g, q, s, t) == BestPathFrom(g, q, << s >>, t)

\* Q-Q-Learning/metrics.py on a generate_graph graph: "link_delay" is there,
\* "processing_delay" is not (default 0), "reliability" is not (default 0.99,
\* one unit per node), "bandwidth" is there; the weights are used as given
CalculateTotalDelay(g, path) == PathDelay(g, path)
CalculateReliabilityCost(g, path) ==
    SumOver([i \in Hops(path) |-> g.lrel[{path[i], path[i+1]}]], Hops(path)) + Len(path)
CalculateResourceCost(g, path) ==
    SumOver([i \in Hops(path) |-> ReferenceBandwidth \div g.cap[{path[i], path[i+1]}]], Hops(path))
CalculateWeightedCost(g, path, wts) ==
    Fin(FALSE,
        wts.wd * CalculateTotalDelay(g, path) + wts.wr * CalculateReliabilityCost(g, path)
          + wts.ws * CalculateResourceCost(g, path),
        wts.den)

\* _wrap_qlearning builds the agent and train begins its first episode
QlStart ==
    /\ pc = "start" /\ algo = "QL"
    /\ ql_q' = [sa \in GNodes \X GNodes |-> 0]
    /\ ql_ep' = 0 /\ ql_state' = src /\ ql_path' = << src >> /\ ql_decays' = 0
    /\ pc' = "ql_train"
    /\ UNCHANGED << inputVars, result, notQL >>

\* the values the end of an episode gives the next one
QlEndEpisode ==
    /\ ql_ep' = ql_ep + 1
    /\ ql_decays' = IF ql_decays < EpsilonDecaysMax THEN ql_decays + 1 ELSE ql_decays
    /\ ql_state' = src /\ ql_path' = << src >>

\* one pass of train's inner loop, or the end of the episode
QlStep ==
    /\ pc = "ql_train" /\ algo = "QL"
    /\ ql_ep < params.episodes
    /\ IF ql_state = dst
       THEN QlEndEpisode /\ UNCHANGED << ql_q, pc, result >>
       ELSE IF ~HasNode(G, ql_state)
       THEN \* G.neighbors raises NetworkXError
            /\ pc' = "done" /\ result' = Raised("NetworkXError")
            /\ UNCHANGED qlVars
       ELSE IF ChooseAction(G, ql_state) = {}
       THEN QlEndEpisode /\ UNCHANGED << ql_q, pc, result >>
       ELSE \E action \in ChooseAction(G, ql_state) :
              IF InPath(action, ql_path)
              THEN /\ ql_q' = UpdateQ(G, ql_q, ql_state, action, RewardLoop, action,
                                      params.alpha, params.gamma)
                   /\ QlEndEpisode
                   /\ UNCHANGED << pc, result >>
              ELSE LET path == Append(ql_path, action)
                       reward == IF action = dst THEN RewardGoal(G, path, w) ELSE RewardStep
                   IN  /\ ql_q' = UpdateQ(G, ql_q, ql_state, action, reward, action,
                                          params.alpha, params.gamma)
                       /\ ql_state' = action /\ ql_path' = path
                       /\ UNCHANGED << ql_ep, ql_decays, pc, result >>
    /\ UNCHANGED << inputVars, notQL >>

\* training is over: get_best_path and _wrap_qlearning's packaging
QlFinish ==
    /\ pc = "ql_train" /\ algo = "QL"
    /\ ql_ep >= params.episodes
    /\ LET best_path == GetBestPath(G, ql_q, src, dst)
       IN  IF best_path = NoPath
           THEN result' = Returned(NoPath, Inf, "no_path")
           ELSE result' = Returned(best_path, CalculateWeightedCost(G, best_path, w), "OK")
    /\ pc' = "done"
    /\ UNCHANGED << inputVars, qlVars, notQL >>

NextQL == QlStart \/ QlStep \/ QlFinish

InitQL == InitRun({"QL"}, RunGraphs, {0, 1, 3, Absent}, {3}, WeightSets, ParamSets, {NoPheromone})
SpecQL == InitQL /\ [][NextQL]_vars
\* _wrap_qlearning and train run in one thread: the construction of the
\* agent and every pass of train's loops happen once they can
SpecQLFair == SpecQL /\ WF_vars(QlStart) /\ WF_vars(QlStep)

(***************************************************************************)
(* Ant colony (aco_core.py) behind _wrap_aco                               *)
(***************************************************************************)
\* pheromone is kept in units of 1/PhScale
PhScale == 10 * 100
\* params.get('initial_pheromone', 0.1)
InitialPheromone == PhScale \div 10
\* evaporate_pheromone's floor 0.01 and update_pheromone's ceiling 10000
PheromoneFloor == PhScale \div 100
PheromoneCeiling == 10000 * PhScale
\* params.get('Q', 10.0); params.get('rho', 0.1) keeps nine tenths
DepositQ == 10
EvaporationKeptTenths == 9

\* _wrap_aco: float(params.get('demand_bw', 1.0))
DefaultDemandBw == 1
AcoDemand == IF params.demand_bw = NoDemand THEN DefaultDemandBw ELSE params.demand_bw[1]

\* ant_walk's list of candidates: the neighbours of current that are not
\* visited (the nodes of path) and whose capacity_mbps meets the demand
AntNeighborsAnyCapacity(g, current, path, demand_bw) ==
    { n \in Neighbors(g, current) : ~InPath(n, path) }
AntNeighbors(g, current, path, demand_bw) ==
    { n \in Neighbors(g, current) :
        ~InPath(n, path) /\ EdgeCapacityMbps(g, current, n) >= demand_bw }

\* ant_walk from the partial path p: every unvisited neighbour whose
\* capacity_mbps meets the demand has a positive weight (at least 1e-6)
\* and may be drawn; no such neighbour gives None
RECURSIVE AntWalkFrom(_, _, _, _)
AntWalkFrom(g, p, t, demand_bw) ==
    IF Last(p) = t THEN {p}
    ELSE IF Len(p) > Cardinality(GNodes) THEN {NoPath}
    ELSE LET neighbors == AntNeighbors(g, Last(p), p, demand_bw)
         IN  IF neighbors = {} THEN {NoPath}
             ELSE UNION { AntWalkFrom(g, Append(p, n), t, demand_bw) : n \in neighbors }
AntWalk(g, s, t, demand_bw) == AntWalkFrom(g, << s >>, t, demand_bw)

\* the pheromone read G[u][v].get("pheromone", 0.1)
PheromoneOr(ph, e) == IF ph[e] = NoPheromone THEN InitialPheromone ELSE ph[e][1]

\* Q / max(score, 0.1), in pheromone units
Addition(score, Q) ==
    IF score.pen THEN 0
    ELSE IF 10 * score.n < score.d THEN Q * PhScale * 10
    ELSE (Q * PhScale * score.d) \div score.n

RECURSIVE DepositHops(_, _, _, _)
DepositHops(ph, path, add, i) ==
    IF i > Len(path) - 1 THEN ph
    ELSE LET e == {path[i], path[i+1]}
             v == PheromoneOr(ph, e) + add
         IN  DepositHops([ph EXCEPT ![e] = << IF v < PheromoneCeiling THEN v ELSE PheromoneCeiling >>],
                         path, add, i + 1)

\* update_pheromone(G, path, score, Q)
UpdatePheromone(ph, path, score, Q) ==
    IF path = NoPath \/ score.inf \/ (~score.pen /\ score.n = 0) THEN ph
    ELSE DepositHops(ph, path, Addition(score, Q), 1)

\* evaporate_pheromone(G, rho)
EvaporatePheromoneNoFloor(ph, kept_tenths) ==
    [e \in DOMAIN ph |-> << (PheromoneOr(ph, e) * kept_tenths) \div 10 >>]
EvaporatePheromone(ph, kept_tenths) ==
    [e \in DOMAIN ph |->
        LET v == (PheromoneOr(ph, e) * kept_tenths) \div 10
        IN  << IF v > PheromoneFloor THEN v ELSE PheromoneFloor >>]

RECURSIVE UpdateAll(_, _, _)
UpdateAll(ph, iteration_paths, i) ==
    IF i > Len(iteration_paths) THEN ph
    ELSE UpdateAll(UpdatePheromone(ph, iteration_paths[i][1], iteration_paths[i][2], DepositQ),
                   iteration_paths, i + 1)

\* _wrap_aco up to its loop: edges without pheromone get the initial value
AcoStart ==
    /\ pc = "start" /\ algo = "ACO"
    /\ pher' = [pher EXCEPT ![gobj] =
                  [e \in DOMAIN pher[gobj] |-> << PheromoneOr(pher[gobj], e) >>]]
    /\ aco_iter' = 0 /\ aco_ant' = 0 /\ aco_iteration_paths' = << >>
    /\ aco_best_path' = NoPath /\ aco_best_cost' = Inf
    /\ pc' = IF params.num_iterations > 0 THEN "aco_loop" ELSE "aco_final"
    /\ UNCHANGED << inputVars, result, notACO >>

\* one ant of the current iteration
AcoAnt ==
    /\ pc = "aco_loop" /\ algo = "ACO"
    /\ aco_ant < params.num_ants
    /\ IF src # dst /\ ~HasNode(G, src)
       THEN \* G.neighbors raises NetworkXError
            /\ pc' = "done" /\ result' = Raised("NetworkXError")
            /\ UNCHANGED acoVars
       ELSE \E path \in AntWalk(G, src, dst, AcoDemand) :
              IF path = NoPath
              THEN /\ aco_ant' = aco_ant + 1
                   /\ UNCHANGED << pc, result, aco_iter, aco_iteration_paths,
                                   aco_best_path, aco_best_cost >>
              ELSE IF ComputeRaises(G, path) \/ NormalizedRaises(w)
              THEN /\ pc' = "done" /\ result' = Raised("ValueError")
                   /\ UNCHANGED acoVars
              ELSE LET cost == WeightedSum(Compute(G, path, << AcoDemand >>), w)
                   IN  /\ aco_iteration_paths' = Append(aco_iteration_paths, << path, cost >>)
                       /\ IF CostLT(cost, aco_best_cost)
                          THEN aco_best_cost' = cost /\ aco_best_path' = path
                          ELSE UNCHANGED << aco_best_cost, aco_best_path >>
                       /\ aco_ant' = aco_ant + 1
                       /\ UNCHANGED << pc, result, aco_iter >>
    /\ UNCHANGED << inputVars, pher, notACO >>

\* the end of an iteration: the deposits, then the evaporation
AcoUpdate ==
    /\ pc = "aco_loop" /\ algo = "ACO"
    /\ aco_ant >= params.num_ants
    /\ pher' = [pher EXCEPT ![gobj] = EvaporatePheromone(UpdateAll(pher[gobj], aco_iteration_paths, 1),
                                                        EvaporationKeptTenths)]
    /\ aco_iter' = aco_iter + 1 /\ aco_ant' = 0 /\ aco_iteration_paths' = << >>
    /\ pc' = IF aco_iter + 1 < params.num_iterations THEN "aco_loop" ELSE "aco_final"
    /\ UNCHANGED << inputVars, result, aco_best_path, aco_best_cost, notACO >>

\* _wrap_aco's packaging: the engine's cost of best_path
AcoFinish ==
    /\ pc = "aco_final" /\ algo = "ACO"
    /\ IF aco_best_path = NoPath
       THEN result' = Returned(NoPath, Inf, "no_path")
       ELSE result' = Returned(aco_best_path,
                               WeightedSum(Compute(G, aco_best_path, << AcoDemand >>), w), "OK")
    /\ pc' = "done"
    /\ UNCHANGED << inputVars, acoVars, pher, notACO >>

NextACO == AcoStart \/ AcoAnt \/ AcoUpdate \/ AcoFinish

\* the input graph carries no pheromone, or some on every edge
PheromoneInputs == { NoPheromone, << InitialPheromone >>, << 4 * InitialPheromone >> }
InitACO == InitRun({"ACO"}, RunGraphs, {0, 1, 3, Absent}, {3}, RunWeights, ParamSets, PheromoneInputs)
SpecACO == InitACO /\ [][NextACO]_vars

(***************************************************************************)
(* ant_walk called directly, one pass of its while loop at a time          *)
(***************************************************************************)
\* demands a caller may pass: _wrap_aco's default, the request's demand and
\* one above every capacity
AntDemands == { DefaultDemandBw, Demand, CapHigh + 1 }

\* current = start; path = [current]; visited = {current}
AntWalkBegin ==
    /\ call = "ant_walk" /\ pc = "aw_start"
    /\ ant' = [ant EXCEPT !.current = src, !.path = << src >>, !.visited = { src }]
    /\ pc' = "aw_loop"
    /\ UNCHANGED << inputVars, result, saVars, gaVars, qlVars, acoVars, pher, gobj, call,
                    cmp_num_runs, cmp_run_id, cmp_runs_table, cmp_summary_table,
                    cmp_best_paths_by_algo, rs_runs_data,
                    eng_path, eng_demand, eng_out, sm_runs, sm_out, rr_first, cancel_flag, ph_calls,
                    xo, eps, bp >>

\* one test of the while condition and, when it holds, one pass of the body:
\* the walk returns path at the target, None when the path is longer than
\* the node count or no candidate is left, G.neighbors raises for a current
\* that is no node, and otherwise a drawn candidate is appended
AntWalkStep ==
    /\ call = "ant_walk" /\ pc = "aw_loop"
    /\ IF ant.current = dst
       THEN ant' = [ant EXCEPT !.status = "path", !.out = ant.path] /\ pc' = "aw_done"
       ELSE IF Len(ant.path) > Cardinality(GNodes)
       THEN ant' = [ant EXCEPT !.status = "none", !.out = NoPath] /\ pc' = "aw_done"
       ELSE IF ~HasNode(G, ant.current)
       THEN ant' = [ant EXCEPT !.status = "raised", !.out = NoPath] /\ pc' = "aw_done"
       ELSE LET neighbors == AntNeighbors(G, ant.current, ant.path, ant.demand_bw)
            IN  IF neighbors = {}
                THEN ant' = [ant EXCEPT !.status = "none", !.out = NoPath] /\ pc' = "aw_done"
                ELSE \E next_node \in neighbors :
                       /\ ant' = [ant EXCEPT !.current = next_node,
                                             !.path = Append(ant.path, next_node),
                                             !.visited = ant.visited \cup { next_node }]
                       /\ pc' = "aw_loop"
    /\ UNCHANGED << inputVars, result, saVars, gaVars, qlVars, acoVars, pher, gobj, call,
                    cmp_num_runs, cmp_run_id, cmp_runs_table, cmp_summary_table,
                    cmp_best_paths_by_algo, rs_runs_data,
                    eng_path, eng_demand, eng_out, sm_runs, sm_out, rr_first, cancel_flag, ph_calls,
                    xo, eps, bp >>

(***************************************************************************)
(* Comparison harness: adapter.compare                                     *)
(***************************************************************************)
AlgorithmsToCompare == << "ACO", "GA", "QL", "SA" >>
\* if num_runs < 5: num_runs = 5
MinRuns == 5

\* G_copy = G.copy(): the object the run is given
AliasOfGraph(o) == o
CopyOfGraph(o) == "G_copy"

\* a run that failed: [algo_name, run_id, 0.0, 0.0, 0.0, inf, runtime_ms, []]
\* (the measured runtime is left out of the rows)
FailedRowDropped(algorithm, run_id) ==
    [algorithm |-> algorithm, run_id |-> run_id, total_delay |-> 0, reliability_cost |-> 0,
     resource_cost |-> 0, total_cost |-> Fin(FALSE, 0, 1), path |-> << 0, 0 >>]
FailedRow(algorithm, run_id) ==
    [algorithm |-> algorithm, run_id |-> run_id, total_delay |-> 0, reliability_cost |-> 0,
     resource_cost |-> 0, total_cost |-> Inf, path |-> NoPath]

\* the row compare appends for a run: the try block and its except
RunRow(g, wts, algorithm, run_id, res) ==
    IF res.status = "raised" THEN FailedRow(algorithm, run_id)
    ELSE IF res.path = NoPath \/ Len(res.path) < 2 THEN FailedRow(algorithm, run_id)
    ELSE IF ComputeRaises(g, res.path) \/ NormalizedRaises(wts) THEN FailedRow(algorithm, run_id)
    ELSE LET pm == Compute(g, res.path, NoDemand)
         IN  [algorithm |-> algorithm, run_id |-> run_id, total_delay |-> pm.total_delay_ms,
              reliability_cost |-> pm.reliability_cost, resource_cost |-> pm.resource_cost,
              total_cost |-> WeightedSum(pm, wts), path |-> res.path]

\* algo_results[algo_name]: the runs of one algorithm, in order
RunsOf(table, a) == SelectSeq(table, LAMBDA r : r.algorithm = a)
\* the runs whose cost is not inf (costs, metrics_list)
FiniteRuns(runs) == SelectSeq(runs, LAMBDA r : ~r.total_cost.inf)

RECURSIVE SumSeq(_, _)
SumSeq(f, n) == IF n = 0 THEN 0 ELSE f[n] + SumSeq(f, n - 1)

\* one row of summary_table: the means are kept as sum and count
SummaryRow(a, runs) ==
    LET fin == FiniteRuns(runs)
        k == Len(fin)
    IN  IF k = 0
        THEN [algorithm |-> a, count |-> 0, sum_delay |-> 0, sum_reliability_cost |-> 0,
              sum_resource_cost |-> 0, avg_cost |-> Fin(FALSE, 0, 1),
              best_cost |-> Inf, worst_cost |-> Inf]
        ELSE [algorithm |-> a, count |-> k,
              sum_delay |-> SumSeq([i \in 1 .. k |-> fin[i].total_delay], k),
              sum_reliability_cost |-> SumSeq([i \in 1 .. k |-> fin[i].reliability_cost], k),
              sum_resource_cost |-> SumSeq([i \in 1 .. k |-> fin[i].resource_cost], k),
              avg_cost |-> Fin(FALSE, SumSeq([i \in 1 .. k |-> fin[i].total_cost.n], k),
                               fin[1].total_cost.d * k),
              best_cost |-> (CHOOSE c \in { fin[i].total_cost : i \in 1 .. k } :
                               \A i \in 1 .. k : ~CostLT(fin[i].total_cost, c)),
              worst_cost |-> (CHOOSE c \in { fin[i].total_cost : i \in 1 .. k } :
                               \A i \in 1 .. k : ~CostLT(c, fin[i].total_cost))]

\* best_paths_by_algo[algo_name]: costs.index(best_cost) is a position in
\* the list of finite costs, and it is used to index all the runs
BestPathOf(runs) ==
    LET fin == FiniteRuns(runs)
    IN  IF Len(fin) = 0 THEN NoPath
        ELSE LET best_cost == SummaryRow("", runs).best_cost
                 best_idx == MinOf({ i \in 1 .. Len(fin) : CostEQ(fin[i].total_cost, best_cost) })
             IN  runs[best_idx].path

SummaryTable(table) ==
    [i \in 1 .. Len(AlgorithmsToCompare) |->
        SummaryRow(AlgorithmsToCompare[i], RunsOf(table, AlgorithmsToCompare[i]))]
BestPathsByAlgo(table) ==
    [i \in 1 .. Len(AlgorithmsToCompare) |-> BestPathOf(RunsOf(table, AlgorithmsToCompare[i]))]

(***************************************************************************)
(* Batch experiments: run_experiments.run_single_scenario                  *)
(***************************************************************************)
\* NUM_RUNS
NUM_RUNS == 5
\* the parameters compare declares, and the keywords run_single_scenario
\* passes in its call
CompareParameters ==
    { "G", "src", "dst", "w_delay", "w_rel", "w_res", "num_runs", "default_params" }
ScenarioCallKeywords ==
    { "G", "src", "dst", "w_delay", "w_rel", "w_res", "num_runs", "default_params", "demand_mbps" }
\* a call with a keyword the function does not declare raises TypeError
CallRaisesTypeError(keywords, parameters) == ~(keywords \subseteq parameters)

\* validate_path: "" stands for (True, None)
RECURSIVE ValidateHops(_, _, _, _)
ValidateHops(g, path, B, i) ==
    IF i > Len(path) - 1 THEN ""
    ELSE IF ~HasEdge(g, path[i], path[i+1]) THEN "invalid_path"
    ELSE IF EdgeCapacityMbps(g, path[i], path[i+1]) < B THEN "bandwidth_constraint"
    ELSE ValidateHops(g, path, B, i + 1)
ValidatePath(g, path, S, D, B) ==
    IF path = NoPath \/ Len(path) < 2 THEN "no_path"
    ELSE IF path[1] # S THEN "invalid_path"
    ELSE IF Last(path) # D THEN "invalid_path"
    ELSE ValidateHops(g, path, B, 1)

\* the row run_single_scenario records for a row of compare's runs_table
ScenarioRow(g, row, S, D, B) ==
    LET fail_reason == ValidatePath(g, row.path, S, D, B)
    IN  IF fail_reason # "" \/ row.total_cost.inf
        THEN [algorithm |-> row.algorithm, run_id |-> row.run_id, status |-> "FAIL",
              fail_reason |-> IF fail_reason # "" THEN fail_reason
                              ELSE IF row.path = NoPath THEN "no_path" ELSE "invalid_path",
              total_cost |-> row.total_cost, path |-> row.path]
        ELSE [algorithm |-> row.algorithm, run_id |-> row.run_id, status |-> "SUCCESS",
              fail_reason |-> "", total_cost |-> row.total_cost, path |-> row.path]
ScenarioRows(g, table, S, D, B) == [i \in 1 .. Len(table) |-> ScenarioRow(g, table[i], S, D, B)]

\* the except branch: a FAIL row for every algorithm and run
ScenarioErrorRows ==
    [k \in 1 .. (Len(AlgorithmsToCompare) * NUM_RUNS) |->
        [algorithm |-> AlgorithmsToCompare[((k - 1) \div NUM_RUNS) + 1],
         run_id |-> ((k - 1) % NUM_RUNS) + 1,
         status |-> "FAIL", fail_reason |-> "runtime_error", total_cost |-> Inf, path |-> NoPath]]

\* the locals of the optimizers, as a new call finds them
ResetLocals ==
    /\ sa_current' = NoPath /\ sa_current_score' = Inf
    /\ sa_best' = NoPath /\ sa_best_score' = Inf /\ sa_best_m' = NoMetrics
    /\ sa_iter' = 0 /\ sa_cool' = 0
    /\ ga_population' = << >> /\ ga_attempts' = 0 /\ ga_gen' = 0
    /\ ga_parents' = << >> /\ ga_new_population' = << >>
    /\ ga_best_path' = NoPath /\ ga_best_cost' = Inf
    /\ ql_q' = [sa \in GNodes \X GNodes |-> 0]
    /\ ql_ep' = 0 /\ ql_state' = 0 /\ ql_path' = << >> /\ ql_decays' = 0
    /\ aco_iter' = 0 /\ aco_ant' = 0 /\ aco_iteration_paths' = << >>
    /\ aco_best_path' = NoPath /\ aco_best_cost' = Inf

\* compare copies the graph and calls run(algo_name, G_copy, ...)
BeginRun(a, run_id) ==
    /\ algo' = a /\ cmp_run_id' = run_id
    /\ gobj' = CopyOfGraph("G")
    /\ pher' = [pher EXCEPT ![CopyOfGraph("G")] = pher["G"]]
    /\ pc' = "start" /\ result' = Pending
    /\ ResetLocals

\* compare up to its first run
CompareStart ==
    /\ pc = "cmp_start" /\ call # "run"
    /\ IF WeightsTotal(w) <= 0
       THEN \* raise ValueError; run_single_scenario's except catches it
            /\ IF call = "scenario"
               THEN pc' = "rs_done" /\ rs_runs_data' = ScenarioErrorRows
               ELSE pc' = "cmp_raised" /\ UNCHANGED rs_runs_data
            /\ UNCHANGED << inputVars, result, saVars, gaVars, qlVars, acoVars, pher, gobj,
                            cmp_num_runs, cmp_run_id >>
       ELSE /\ cmp_num_runs' = IF cmp_num_runs < MinRuns THEN MinRuns ELSE cmp_num_runs
            /\ w' = [w EXCEPT !.den = WeightsTotal(w)]
            /\ BeginRun(AlgorithmsToCompare[1], 1)
            /\ UNCHANGED << G, src, dst, params, rs_runs_data >>
    /\ UNCHANGED << call, pureVars, cmp_runs_table, cmp_summary_table, cmp_best_paths_by_algo >>

\* the algorithm after a in algorithms_to_compare
NextAlgorithmLast(a) == AlgorithmsToCompare[Len(AlgorithmsToCompare)]
NextAlgorithm(a) ==
    AlgorithmsToCompare[(CHOOSE i \in 1 .. Len(AlgorithmsToCompare) : AlgorithmsToCompare[i] = a) + 1]

\* a run is over: its row, then the next run or the summary
CompareCollect ==
    /\ pc = "done" /\ call # "run"
    /\ LET table == Append(cmp_runs_table, RunRow(G, w, algo, cmp_run_id, result))
       IN  /\ cmp_runs_table' = table
           /\ IF cmp_run_id < cmp_num_runs
              THEN /\ BeginRun(algo, cmp_run_id + 1)
                   /\ UNCHANGED << cmp_summary_table, cmp_best_paths_by_algo, rs_runs_data >>
              ELSE IF algo # AlgorithmsToCompare[Len(AlgorithmsToCompare)]
              THEN /\ BeginRun(NextAlgorithm(algo), 1)
                   /\ UNCHANGED << cmp_summary_table, cmp_best_paths_by_algo, rs_runs_data >>
              ELSE /\ cmp_summary_table' = SummaryTable(table)
                   /\ cmp_best_paths_by_algo' = BestPathsByAlgo(table)
                   /\ IF call = "scenario"
                      THEN /\ pc' = "rs_done"
                           /\ rs_runs_data' = ScenarioRows(G, table, src, dst, params.demand_bw[1])
                      ELSE pc' = "cmp_returned" /\ UNCHANGED rs_runs_data
                   /\ result' = Pending /\ gobj' = "G"
                   /\ ResetLocals
                   /\ UNCHANGED << algo, cmp_run_id, pher >>
    /\ UNCHANGED << G, src, dst, w, params, call, pureVars, cmp_num_runs >>

\* run_single_scenario: its call of compare, and its except branch
RunSingleScenario ==
    /\ pc = "rs_start" /\ call = "scenario"
    /\ IF CallRaisesTypeError(ScenarioCallKeywords, CompareParameters)
       THEN /\ rs_runs_data' = ScenarioErrorRows
            /\ pc' = "rs_done"
            /\ UNCHANGED cmp_num_runs
       ELSE /\ cmp_num_runs' = NUM_RUNS
            /\ pc' = "cmp_start"
            /\ UNCHANGED rs_runs_data
    /\ UNCHANGED << inputVars, result, saVars, gaVars, qlVars, acoVars, pher, gobj, call, pureVars,
                    cmp_run_id, cmp_runs_table, cmp_summary_table, cmp_best_paths_by_algo >>

\* the graphs of the harness: a line 0-1-2-3 and a fork at node 1
LineEdges == { {0,1}, {1,2}, {2,3} }
ForkEdges == { {0,1}, {1,2}, {1,3} }
\* the parameters the harness gives every algorithm
CompareParams(d) ==
    [demand_bw |-> d, min_bandwidth |-> d, max_iter |-> 1, pop_size |-> 2, generations |-> 1,
     episodes |-> 1, alpha |-> 1, gamma |-> 1, num_iterations |-> 1, num_ants |-> 1]
\* W_DELAY, W_REL, W_RES
ScenarioWeights == [wd |-> 33, wr |-> 33, ws |-> 34, den |-> 100]

\* calls of compare: on the line, every kind of request; on the fork, where
\* a walk may end in the dead end 3, one valid request
CompareCalls ==
    { [G |-> MkGraph(LineEdges, [e \in LineEdges |-> IF e = low THEN CapLow ELSE CapHigh]),
       src |-> s, dst |-> 3, w |-> wts, demand |-> d, ph |-> x, num_runs |-> n] :
        low \in { {2,3}, {} }, s \in {0, 3, Absent}, wts \in RunWeights,
        d \in {NoDemand, << Demand >>}, x \in {NoPheromone, << 4 * InitialPheromone >>},
        n \in {1, MinRuns + 1} }
    \cup
    { [G |-> MkGraph(ForkEdges, [e \in ForkEdges |-> CapHigh]),
       src |-> 0, dst |-> 2, w |-> [wd |-> 1, wr |-> 1, ws |-> 1, den |-> 3],
       demand |-> NoDemand, ph |-> x, num_runs |-> MinRuns] :
        x \in {<< 4 * InitialPheromone >>} }

InitCompare ==
    /\ \E c \in CompareCalls :
         /\ G = c.G /\ src = c.src /\ dst = c.dst
         /\ params = CompareParams(c.demand)
         /\ pher = [o \in {"G", "G_copy"} |-> [e \in c.G.E |-> c.ph]]
         /\ \/ call = "compare" /\ pc = "cmp_start" /\ w = c.w /\ cmp_num_runs = c.num_runs
            \/ call = "scenario" /\ pc = "rs_start" /\ w = ScenarioWeights /\ cmp_num_runs = 0
               /\ c.demand # NoDemand
    /\ algo = AlgorithmsToCompare[1] /\ gobj = "G" /\ result = Pending
    /\ cmp_run_id = 0 /\ cmp_runs_table = << >>
    /\ cmp_summary_table = << >> /\ cmp_best_paths_by_algo = << >>
    /\ rs_runs_data = << >> /\ PureInit
    /\ SaInit /\ GaInit /\ QlInit /\ AcoInit

NextCompare ==
    \/ CompareStart \/ CompareCollect \/ RunSingleScenario
    \/ NextACO \/ NextGA \/ NextQL \/ NextSA
SpecCompare == InitCompare /\ [][NextCompare]_vars

(***************************************************************************)
(* Summaries: compare's summary_table and run_experiments.compute_summary, *)
(* called directly on the runs of one algorithm                            *)
(***************************************************************************)
\* the optimizers and the harness at rest, while a direct call is made
IdleRest ==
    /\ algo = AlgorithmsToCompare[1] /\ params = CompareParams(NoDemand)
    /\ result = Pending /\ gobj = "G"
    /\ SaInit /\ GaInit /\ QlInit /\ AcoInit /\ CmpInit

\* runs per algorithm in a direct call of the summary code
MaxSummaryRuns == 3
\* measured runtimes, in ms
RuntimesMs == { 1, 2 }
\* what a run leaves in algo_runs, (cost, runtime_ms, path, metrics): a
\* failed run, or a successful one on one of two paths
RunOutcomes ==
    { [total_cost |-> Inf, runtime_ms |-> t, path |-> NoPath, total_delay |-> 0,
       reliability_cost |-> 0, resource_cost |-> 0] : t \in RuntimesMs }
    \cup
    { [total_cost |-> Fin(FALSE, c, 1), runtime_ms |-> t,
       path |-> IF c = 2 THEN << 0, 3 >> ELSE << 0, 1, 2, 3 >>,
       total_delay |-> c, reliability_cost |-> 0, resource_cost |-> 0] :
        c \in { 2, 3 }, t \in RuntimesMs }
SummaryInputs == UNION { [1 .. n -> RunOutcomes] : n \in 1 .. MaxSummaryRuns }

\* statistics.mean of the runtimes of runs, as sum / count
MeanRuntime(runs) ==
    [n |-> SumSeq([i \in 1 .. Len(runs) |-> runs[i].runtime_ms], Len(runs)), d |-> Len(runs)]
\* a float that is 0.0
ZeroMs == [n |-> 0, d |-> 1]

\* compare: the avg_runtime of a summary row
CompareAvgRuntime(runs) ==
    IF Len(FiniteRuns(runs)) = 0 THEN ZeroMs
    ELSE IF Len(runs) > 0 THEN MeanRuntime(runs) ELSE ZeroMs

\* run_single_scenario: the row of a run, as compute_summary reads it
\* (total_cost is None when it is inf)
ScenarioRunRow(r) ==
    [status |-> IF r.total_cost.inf THEN "FAIL" ELSE "SUCCESS",
     total_delay |-> r.total_delay, reliability_cost |-> r.reliability_cost,
     resource_cost |-> r.resource_cost,
     total_cost |-> r.total_cost, runtime_ms |-> r.runtime_ms]

\* compute_summary, for the rows of one (scenario, algorithm) group
ComputeSummary(rows) ==
    LET success_runs == SelectSeq(rows, LAMBDA r : r.status = "SUCCESS" /\ ~r.total_cost.inf)
        success_count == Len(success_runs)
    IN  IF success_count > 0
        THEN [success_count |-> success_count, total_count |-> Len(rows),
              best_total_cost |-> SummaryRow("", success_runs).best_cost,
              worst_total_cost |-> SummaryRow("", success_runs).worst_cost,
              avg_total_cost |-> SummaryRow("", success_runs).avg_cost,
              avg_runtime_ms |-> MeanRuntime(success_runs)]
        ELSE [success_count |-> 0, total_count |-> Len(rows),
              best_total_cost |-> Inf, worst_total_cost |-> Inf, avg_total_cost |-> Inf,
              avg_runtime_ms |-> IF Len(rows) > 0 THEN MeanRuntime(rows) ELSE ZeroMs]

\* a direct call of compare's summary code on sm_runs
SummarizeCompare ==
    /\ call = "summary" /\ pc \in { "sm_start", "sm_computed" }
    /\ sm_out' = [sm_out EXCEPT !.compare =
                     << [row |-> SummaryRow(algo, sm_runs),
                         avg_runtime |-> CompareAvgRuntime(sm_runs),
                         best_path |-> BestPathOf(sm_runs)] >>]
    /\ pc' = IF pc = "sm_start" THEN "sm_compared" ELSE "sm_done"
    /\ UNCHANGED << inputVars, result, saVars, gaVars, qlVars, acoVars, pher, gobj, call,
                    cmp_num_runs, cmp_run_id, cmp_runs_table, cmp_summary_table,
                    cmp_best_paths_by_algo, rs_runs_data, eng_path, eng_demand, eng_out, sm_runs, rr_first, cancel_flag, ant,
                    ph_calls, xo, eps, bp >>

\* a direct call of compute_summary on the rows of the same runs
SummarizeScenario ==
    /\ call = "summary" /\ pc \in { "sm_start", "sm_compared" }
    /\ sm_out' = [sm_out EXCEPT !.scenario =
                     << ComputeSummary([i \in 1 .. Len(sm_runs) |-> ScenarioRunRow(sm_runs[i])]) >>]
    /\ pc' = IF pc = "sm_start" THEN "sm_computed" ELSE "sm_done"
    /\ UNCHANGED << inputVars, result, saVars, gaVars, qlVars, acoVars, pher, gobj, call,
                    cmp_num_runs, cmp_run_id, cmp_runs_table, cmp_summary_table,
                    cmp_best_paths_by_algo, rs_runs_data, eng_path, eng_demand, eng_out, sm_runs, rr_first, cancel_flag, ant,
                    ph_calls, xo, eps, bp >>

InitSummary ==
    /\ call = "summary" /\ pc = "sm_start" /\ IdleRest
    /\ G = MkGraph(LineEdges, [e \in LineEdges |-> CapHigh])
    /\ src = 0 /\ dst = 3 /\ w = ScenarioWeights
    /\ pher = [o \in {"G", "G_copy"} |-> [e \in G.E |-> NoPheromone]]
    /\ eng_path = << >> /\ eng_demand = << >> /\ eng_out = << >> /\ rr_first = << >> /\ bp = << >> /\ eps = << >> /\ xo = << >> /\ ph_calls = 0
    /\ cancel_flag = FALSE /\ ant = << >>
    /\ sm_runs \in SummaryInputs
    /\ sm_out = [compare |-> << >>, scenario |-> << >>]
NextSummary == SummarizeCompare \/ SummarizeScenario
SpecSummary == InitSummary /\ [][NextSummary]_vars

(***************************************************************************)
(* MetricsEngine called directly: compute, then weighted_sum               *)
(***************************************************************************)
\* the longest path given to compute in a direct call
MaxPathLen == 3
\* paths a caller may hand over: None or [] (the empty sequence), and any
\* list of node ids, in the graph or not, repeated or not
EnginePaths == UNION { [1 .. n -> GNodes \cup {Absent}] : n \in 0 .. MaxPathLen }

\* Weights given to weighted_sum: those of the drivers, and triples with a
\* negative entry whose sum is negative, zero or positive
EngineWeights ==
    WeightSets \cup
    { [wd |-> -1, wr |-> 0, ws |-> 0, den |-> 1],
      [wd |-> 1, wr |-> -1, ws |-> 0, den |-> 1],
      [wd |-> 2, wr |-> -1, ws |-> 1, den |-> 1] }

\* engine.compute(path, demand_mbps=demand)
EngineCompute ==
    /\ call = "engine" /\ pc = "eng_start"
    /\ IF ComputeRaises(G, eng_path)
       THEN /\ eng_out' = [status |-> "compute_raised", metrics |-> NoMetrics, score |-> Inf]
            /\ pc' = "eng_done"
       ELSE /\ eng_out' = [status |-> "computed", metrics |-> Compute(G, eng_path, eng_demand),
                           score |-> Inf]
            /\ pc' = "eng_computed"
    /\ UNCHANGED << inputVars, result, saVars, gaVars, qlVars, acoVars, pher, gobj, call,
                    cmp_num_runs, cmp_run_id, cmp_runs_table, cmp_summary_table,
                    cmp_best_paths_by_algo, rs_runs_data, eng_path, eng_demand, sm_runs, sm_out, rr_first, cancel_flag, ant,
                    ph_calls, xo, eps, bp >>

\* engine.weighted_sum(metrics, weights) on what compute returned
EngineWeightedSum ==
    /\ call = "engine" /\ pc = "eng_computed"
    /\ IF NormalizedRaises(w)
       THEN eng_out' = [eng_out EXCEPT !.status = "sum_raised"]
       ELSE eng_out' = [eng_out EXCEPT !.status = "scored",
                                       !.score = WeightedSum(eng_out.metrics, w)]
    /\ pc' = "eng_done"
    /\ UNCHANGED << inputVars, result, saVars, gaVars, qlVars, acoVars, pher, gobj, call,
                    cmp_num_runs, cmp_run_id, cmp_runs_table, cmp_summary_table,
                    cmp_best_paths_by_algo, rs_runs_data, eng_path, eng_demand, sm_runs, sm_out, rr_first, cancel_flag, ant,
                    ph_calls, xo, eps, bp >>

InitEngine ==
    /\ call = "engine" /\ pc = "eng_start" /\ IdleRest
    /\ G \in RunGraphs
    /\ src = 0 /\ dst = 3 /\ w \in EngineWeights
    /\ pher = [o \in {"G", "G_copy"} |-> [e \in G.E |-> NoPheromone]]
    /\ eng_path \in EnginePaths
    /\ eng_demand \in { NoDemand, << Demand >>, << CapLow >>, << CapHigh >> }
    /\ eng_out = << >>
    /\ sm_runs = << >> /\ sm_out = << >> /\ rr_first = << >> /\ bp = << >> /\ eps = << >> /\ xo = << >> /\ ph_calls = 0
    /\ cancel_flag = FALSE /\ ant = << >>
NextEngine == EngineCompute \/ EngineWeightedSum
SpecEngine == InitEngine /\ [][NextEngine]_vars

\* a direct call ant_walk(G, src, dst, demand_bw, heuristic_fn): any graph,
\* any start and end, in the graph or not
InitAntWalk ==
    /\ call = "ant_walk" /\ pc = "aw_start" /\ IdleRest
    /\ G \in Graphs
    /\ src \in GNodes \cup { Absent } /\ dst \in GNodes \cup { Absent }
    /\ w = ScenarioWeights
    /\ pher = [o \in {"G", "G_copy"} |-> [e \in G.E |-> NoPheromone]]
    /\ eng_path = << >> /\ eng_demand = << >> /\ eng_out = << >>
    /\ sm_runs = << >> /\ sm_out = << >> /\ rr_first = << >> /\ bp = << >> /\ eps = << >> /\ xo = << >> /\ ph_calls = 0 /\ cancel_flag = FALSE
    /\ \E d \in AntDemands :
          ant = [demand_bw |-> d, current |-> src, path |-> << >>, visited |-> {},
                 status |-> "walking", out |-> NoPath]
NextAntWalk == AntWalkBegin \/ AntWalkStep
SpecAntWalk == InitAntWalk /\ [][NextAntWalk]_vars
\* the call is not suspended: a loop pass that can be taken is taken
SpecAntWalkFair == SpecAntWalk /\ WF_vars(NextAntWalk)

(***************************************************************************)
(* update_pheromone and evaporate_pheromone called directly, in any order  *)
(***************************************************************************)
\* the longest sequence of calls
MaxPheromoneCalls == 3
\* what every edge carries before the first call: no attribute, tau_min,
\* just above it, the default, just below tau_max, tau_max
PheromoneStarts ==
    { NoPheromone, << PheromoneFloor >>, << PheromoneFloor + 1 >>, << InitialPheromone >>,
      << PheromoneCeiling - 1 >>, << PheromoneCeiling >> }
\* (1 - rho) in tenths, for rho = 0.9, 0.5, 0.1
KeptTenths == { 1, 5, 9 }
\* the coefficient Q
DepositQs == { 1, DepositQ }
\* scores a caller may pass: 0, below 0.1, negative, ordinary, penalised, inf
DepositScores ==
    { Fin(FALSE, 0, 1), Fin(FALSE, 1, 20), Fin(FALSE, -3, 1), Fin(FALSE, 5, 1),
      Fin(TRUE, 5, 1), Inf }
\* paths a caller may pass: None, and the simple paths of G to node 3
DepositPaths(g) == { NoPath } \cup SimplePaths(g.E, 0, 3) \cup SimplePaths(g.E, 1, 3)

\* evaporate_pheromone(G, rho)
PheromoneEvaporate ==
    /\ call = "pheromone" /\ ph_calls < MaxPheromoneCalls
    /\ \E kept \in KeptTenths :
          pher' = [pher EXCEPT ![gobj] = EvaporatePheromone(pher[gobj], kept)]
    /\ ph_calls' = ph_calls + 1 /\ pc' = "ph_evaporated"
    /\ UNCHANGED << inputVars, result, saVars, gaVars, qlVars, acoVars, gobj, call,
                    cmp_num_runs, cmp_run_id, cmp_runs_table, cmp_summary_table,
                    cmp_best_paths_by_algo, rs_runs_data,
                    eng_path, eng_demand, eng_out, sm_runs, sm_out, rr_first, cancel_flag, ant,
                    xo, eps, bp >>

\* update_pheromone(G, path, score, Q)
PheromoneUpdate ==
    /\ call = "pheromone" /\ ph_calls < MaxPheromoneCalls
    /\ \E path \in DepositPaths(G), score \in DepositScores, Q \in DepositQs :
          pher' = [pher EXCEPT ![gobj] = UpdatePheromone(pher[gobj], path, score, Q)]
    /\ ph_calls' = ph_calls + 1 /\ pc' = "ph_updated"
    /\ UNCHANGED << inputVars, result, saVars, gaVars, qlVars, acoVars, gobj, call,
                    cmp_num_runs, cmp_run_id, cmp_runs_table, cmp_summary_table,
                    cmp_best_paths_by_algo, rs_runs_data,
                    eng_path, eng_demand, eng_out, sm_runs, sm_out, rr_first, cancel_flag, ant,
                    xo, eps, bp >>

InitPheromone ==
    /\ call = "pheromone" /\ pc = "ph_start" /\ IdleRest
    /\ G \in { g \in RunGraphs : \A e \in g.E : g.cap[e] = CapHigh }
    /\ src = 0 /\ dst = 3 /\ w = ScenarioWeights
    /\ \E x \in PheromoneStarts : pher = [o \in {"G", "G_copy"} |-> [e \in G.E |-> x]]
    /\ eng_path = << >> /\ eng_demand = << >> /\ eng_out = << >>
    /\ sm_runs = << >> /\ sm_out = << >> /\ rr_first = << >> /\ bp = << >> /\ eps = << >> /\ xo = << >>
    /\ cancel_flag = FALSE /\ ant = << >> /\ ph_calls = 0
NextPheromone == PheromoneEvaporate \/ PheromoneUpdate
SpecPheromone == InitPheromone /\ [][NextPheromone]_vars

(***************************************************************************)
(* crossover called directly on two walks from src to dst                  *)
(***************************************************************************)
\* the most nodes a parent has
MaxWalkLen == 4
\* the walks of g from s to t with at most n nodes; nodes may repeat
Walks(g, s, t, n) ==
    { p \in UNION { [1 .. k -> GNodes] : k \in 1 .. n } :
        /\ p[1] = s /\ p[Len(p)] = t
        /\ \A i \in 1 .. (Len(p) - 1) : HasEdge(g, p[i], p[i+1]) }

\* crossover(parent1, parent2)
CrossoverCall ==
    /\ call = "crossover" /\ pc = "xo_start"
    /\ \E cs \in Crossover(xo.parent1, xo.parent2) :
          xo' = [xo EXCEPT !.child1 = cs[1], !.child2 = cs[2]]
    /\ pc' = "xo_done"
    /\ UNCHANGED << inputVars, result, saVars, gaVars, qlVars, acoVars, pher, gobj, call,
                    cmp_num_runs, cmp_run_id, cmp_runs_table, cmp_summary_table,
                    cmp_best_paths_by_algo, rs_runs_data,
                    eng_path, eng_demand, eng_out, sm_runs, sm_out, rr_first, cancel_flag, ant,
                    ph_calls, eps, bp >>

InitCrossover ==
    /\ call = "crossover" /\ pc = "xo_start" /\ IdleRest
    /\ G \in { g \in Graphs : \A e \in g.E : g.cap[e] = CapHigh }
    /\ src \in GNodes /\ dst \in GNodes /\ w = ScenarioWeights
    /\ pher = [o \in {"G", "G_copy"} |-> [e \in G.E |-> NoPheromone]]
    /\ eng_path = << >> /\ eng_demand = << >> /\ eng_out = << >>
    /\ sm_runs = << >> /\ sm_out = << >> /\ rr_first = << >> /\ bp = << >> /\ eps = << >>
    /\ cancel_flag = FALSE /\ ant = << >> /\ ph_calls = 0
    /\ \E p1 \in Walks(G, src, dst, MaxWalkLen), p2 \in Walks(G, src, dst, MaxWalkLen) :
          xo = [parent1 |-> p1, parent2 |-> p2, child1 |-> NoPath, child2 |-> NoPath]
NextCrossover == CrossoverCall
SpecCrossover == InitCrossover /\ [][NextCrossover]_vars

(***************************************************************************)
(* The exploration rate through QLearningAgent.train                       *)
(***************************************************************************)
\* epsilon is kept as hi * EpsBase + lo in units of 1 / (EpsBase * EpsBase)
EpsBase == 100 * 1000
\* self.epsilon = 1.0, self.epsilon_min = 0.01, self.epsilon_decay = 0.995
EpsilonStart == [hi |-> EpsBase, lo |-> 0]
EpsilonMin == [hi |-> EpsBase \div 100, lo |-> 0]
EpsilonDecayThousandths == 995
EpsGT(a, b) == a.hi > b.hi \/ (a.hi = b.hi /\ a.lo > b.lo)
\* epsilon * epsilon_decay
EpsTimesDecay(e) ==
    LET H == e.hi * EpsilonDecayThousandths + (e.lo * EpsilonDecayThousandths) \div EpsBase
        L == (e.lo * EpsilonDecayThousandths) % EpsBase
    IN  [hi |-> H \div 1000, lo |-> ((H % 1000) * EpsBase + L) \div 1000]
\* the most episodes asked for
MaxTrainEpisodes == 1000
\* episodes a caller may ask for: none, one, the default, many
TrainEpisodes == { 0, 1, Episodes, 500, MaxTrainEpisodes }

\* the end of one episode of train: epsilon decays while it is above
\* epsilon_min.  The episode's body reads epsilon and never writes it.
TrainEpisodeEnd ==
    /\ call = "epsilon" /\ pc = "eps_train"
    /\ eps.ep < eps.episodes
    /\ eps' = [eps EXCEPT !.ep = eps.ep + 1,
                          !.epsilon = IF EpsGT(eps.epsilon, EpsilonMin)
                                      THEN EpsTimesDecay(eps.epsilon) ELSE eps.epsilon]
    /\ UNCHANGED << inputVars, pc, result, saVars, gaVars, qlVars, acoVars, pher, gobj, call,
                    cmp_num_runs, cmp_run_id, cmp_runs_table, cmp_summary_table,
                    cmp_best_paths_by_algo, rs_runs_data,
                    eng_path, eng_demand, eng_out, sm_runs, sm_out, rr_first, cancel_flag, ant,
                    ph_calls, xo, bp >>

\* train returns
TrainReturn ==
    /\ call = "epsilon" /\ pc = "eps_train"
    /\ eps.ep >= eps.episodes
    /\ pc' = "eps_done"
    /\ UNCHANGED << inputVars, result, saVars, gaVars, qlVars, acoVars, pher, gobj, call,
                    cmp_num_runs, cmp_run_id, cmp_runs_table, cmp_summary_table,
                    cmp_best_paths_by_algo, rs_runs_data,
                    eng_path, eng_demand, eng_out, sm_runs, sm_out, rr_first, cancel_flag, ant,
                    ph_calls, xo, eps, bp >>

\* QLearningAgent(..., episodes = n) has been built and train() is called
InitEpsilon ==
    /\ call = "epsilon" /\ pc = "eps_train" /\ IdleRest
    /\ G = MkGraph(LineEdges, [e \in LineEdges |-> CapHigh])
    /\ src = 0 /\ dst = 3 /\ w = ScenarioWeights
    /\ pher = [o \in {"G", "G_copy"} |-> [e \in G.E |-> NoPheromone]]
    /\ eng_path = << >> /\ eng_demand = << >> /\ eng_out = << >>
    /\ sm_runs = << >> /\ sm_out = << >> /\ rr_first = << >> /\ bp = << >>
    /\ cancel_flag = FALSE /\ ant = << >> /\ ph_calls = 0 /\ xo = << >>
    /\ \E n \in TrainEpisodes : eps = [epsilon |-> EpsilonStart, episodes |-> n, ep |-> 0]
NextEpsilon == TrainEpisodeEnd \/ TrainReturn
SpecEpsilon == InitEpsilon /\ [][NextEpsilon]_vars

(***************************************************************************)
(* get_best_path called directly on an agent with a given Q-table          *)
(***************************************************************************)
\* the Q values of a table: a penalty, the default of get_q, a reward
QValues == { (0 - 1) * QScale, 0, QScale }
\* the Q-tables over the (state, action) pairs along the edges of g; get_q
\* gives 0 for every other pair
QTables(g) ==
    LET pairs == { sa \in GNodes \X GNodes : HasEdge(g, sa[1], sa[2]) }
    IN  { [sa \in GNodes \X GNodes |-> IF sa \in pairs THEN f[sa] ELSE 0] :
            f \in [pairs -> QValues] }
\* min_bandwidth of the agent: 0 where every edge has the high capacity,
\* the demand where one has not
MinBandwidths(g) == IF \A e \in g.E : g.cap[e] = CapHigh THEN {0} ELSE {Demand}

\* agent.get_best_path()
GetBestPathCall ==
    /\ call = "best_path" /\ pc = "bp_start"
    /\ bp' = [bp EXCEPT !.out = BestPathWith(G, bp.q, << src >>, dst, bp.min_bandwidth)]
    /\ pc' = "bp_done"
    /\ UNCHANGED << inputVars, result, saVars, gaVars, qlVars, acoVars, pher, gobj, call,
                    cmp_num_runs, cmp_run_id, cmp_runs_table, cmp_summary_table,
                    cmp_best_paths_by_algo, rs_runs_data,
                    eng_path, eng_demand, eng_out, sm_runs, sm_out, rr_first, cancel_flag, ant,
                    ph_calls, xo, eps >>

\* the agents get_best_path is called on have been through train(): the
\* source is a node of the graph; the target need not be one
InitBestPath ==
    /\ call = "best_path" /\ pc = "bp_start" /\ IdleRest
    /\ G \in RunGraphs
    /\ src \in {0, 3} /\ dst \in {3, Absent} /\ w = ScenarioWeights
    /\ pher = [o \in {"G", "G_copy"} |-> [e \in G.E |-> NoPheromone]]
    /\ eng_path = << >> /\ eng_demand = << >> /\ eng_out = << >>
    /\ sm_runs = << >> /\ sm_out = << >> /\ rr_first = << >> /\ eps = << >> /\ xo = << >>
    /\ cancel_flag = FALSE /\ ant = << >> /\ ph_calls = 0
    /\ \E q \in QTables(G), mb \in MinBandwidths(G) :
          bp = [q |-> q, min_bandwidth |-> mb, out |-> NoPath]
NextBestPath == GetBestPathCall
SpecBestPath == InitBestPath /\ [][NextBestPath]_vars

(***************************************************************************)
(* run() called twice with the same arguments                              *)
(***************************************************************************)
\* the driver keeps what the first call returned and calls run() again with
\* the same arguments, on a graph equal to the one the first call was given.
\* run() takes no seed and the optimizers draw from the random module as
\* it stands (run_single_scenario's base_seed is never read).
Rerun ==
    /\ call = "run" /\ pc = "done" /\ rr_first = << >>
    /\ rr_first' = << result >>
    /\ result' = Pending /\ pc' = "start"
    /\ gobj' = CopyOfGraph("G")
    /\ ResetLocals
    /\ UNCHANGED << inputVars, pher, call, cmp_num_runs, cmp_run_id, cmp_runs_table,
                    cmp_summary_table, cmp_best_paths_by_algo, rs_runs_data,
                    eng_path, eng_demand, eng_out, sm_runs, sm_out, cancel_flag, ant, ph_calls,
                    xo, eps, bp >>

NextRerun == NextACO \/ Rerun
SpecRerun == InitACO /\ [][NextRerun]_vars

\* the driver calls run() with ACO on a graph that has no pheromone yet and,
\* when it has returned, once more with the same arguments on the same graph
\* object
RerunSameGraph ==
    /\ call = "run" /\ pc = "done" /\ rr_first = << >>
    /\ rr_first' = << result >>
    /\ result' = Pending /\ pc' = "start"
    /\ ResetLocals
    /\ UNCHANGED << inputVars, pher, gobj, call, cmp_num_runs, cmp_run_id, cmp_runs_table,
                    cmp_summary_table, cmp_best_paths_by_algo, rs_runs_data,
                    eng_path, eng_demand, eng_out, sm_runs, sm_out, cancel_flag, ant, ph_calls,
                    xo, eps, bp >>

InitAcoFresh == InitRun({"ACO"}, RunGraphs, {0, 1, 3, Absent}, {3}, RunWeights, ParamSets,
                        {NoPheromone})
NextAcoTwice == NextACO \/ RerunSameGraph
SpecAcoTwice == InitAcoFresh /\ [][NextAcoTwice]_vars

\* run() with any of the four optimizers
InitAnyRun == InitACO \/ InitGA \/ InitQL \/ InitSA
NextAnyRun == NextACO \/ NextGA \/ NextQL \/ NextSA
SpecRun == InitAnyRun /\ [][NextAnyRun]_vars

(***************************************************************************)
(* run() while the driver asks for the optimizer to stop                   *)
(***************************************************************************)
\* the driver sets its flag while an optimizer is under way.  run(), the
\* wrappers and the optimizers take no flag, event or callback, and none of
\* their loops reads one: the request changes nothing they look at.
RequestCancel ==
    /\ call = "run" /\ pc \notin { "start", "done" } /\ ~cancel_flag
    /\ cancel_flag' = TRUE
    /\ UNCHANGED << inputVars, pc, result, saVars, gaVars, qlVars, acoVars, pher, gobj, call,
                    cmp_num_runs, cmp_run_id, cmp_runs_table, cmp_summary_table,
                    cmp_best_paths_by_algo, rs_runs_data,
                    eng_path, eng_demand, eng_out, sm_runs, sm_out, rr_first, ant, ph_calls,
                    xo, eps, bp >>

\* the optimizer is about to begin a pass of its outer loop: an iteration of
\* _wrap_aco, a generation of run_genetic_algorithm, an episode of train, a
\* pass of simulated_annealing's while loop
OuterLoopBoundary ==
    \/ algo = "ACO" /\ pc = "aco_loop" /\ aco_ant = 0
    \/ algo = "GA" /\ pc = "ga_gen" /\ ga_gen < params.generations
    \/ algo = "QL" /\ pc = "ql_train" /\ ql_ep < params.episodes /\ ql_path = << src >>
    \/ algo = "SA" /\ pc = "sa_loop"

NextCancel == NextAnyRun \/ RequestCancel
SpecCancel == InitAnyRun /\ [][NextCancel]_vars

\* every entry point
Init == InitAnyRun \/ InitCompare \/ InitSummary \/ InitEngine \/ InitAntWalk \/ InitPheromone
            \/ InitCrossover
Next == NextCompare \/ NextSummary \/ NextEngine \/ NextAntWalk \/ NextPheromone
            \/ NextCrossover
Spec == Init /\ [][Next]_vars

(***************************************************************************)
(* Baseline router (topology.compute_path_weighted)                        *)
(***************************************************************************)
\* edge_weight(u, v, ed) times the sum of the weights: the link's delay,
\* reliability cost and resource cost, and the costs of the node v the edge
\* leads to (its processing delay unless v is the source or the target)
EdgeWeightHopCount(g, u, v, s, t, wts) == 1
EdgeWeight(g, u, v, s, t, wts) ==
    LET delay_cost == g.delay[{u, v}] + (IF v = s \/ v = t THEN 0 ELSE g.proc[v])
        rel_cost == g.lrel[{u, v}] + g.nrel[v]
        resource_cost == ReferenceBandwidth \div g.cap[{u, v}]
    IN  wts.wd * delay_cost + wts.wr * rel_cost + wts.ws * resource_cost

\* the sum of the edge weights along p
PathWeight(g, p, s, t, wts) ==
    SumOver([i \in Hops(p) |-> EdgeWeight(g, p[i], p[i+1], s, t, wts)], Hops(p))

\* compute_path_weighted: no path when S = D, when the weights sum to zero
\* or when a node is missing; else nx.shortest_path with edge_weight
\* (Dijkstra), a path of least summed weight, the library's choice among
\* equals
BaselinePaths(g, s, t, wts) ==
    IF s = t \/ NormalizedRaises(wts) \/ ~HasNode(g, s) \/ ~HasNode(g, t) THEN {}
    ELSE LET ps == SimplePaths(g.E, s, t)
         IN  { p \in ps : \A q \in ps : PathWeight(g, p, s, t, wts) <= PathWeight(g, q, s, t, wts) }

(***************************************************************************)
(* Requests and results                                                    *)
(***************************************************************************)
\* the spec's Path: from s to t, no repeated node, every hop an edge
IsPath(g, p, s, t) ==
    /\ Len(p) >= 2
    /\ p[1] = s /\ Last(p) = t
    /\ NoRepeat(p)
    /\ \A i \in Hops(p) : HasEdge(g, p[i], p[i+1])

\* the spec's InvalidInput conditions on the request
InvalidRequest == src = dst \/ ~HasNode(G, src) \/ ~HasNode(G, dst) \/ WeightsTotal(w) <= 0
ValidRequest == ~InvalidRequest

ReturnedPath == pc = "done" /\ result.status = "returned" /\ result.path # NoPath
ReturnedNoPath == pc = "done" /\ result.status = "returned" /\ result.path = NoPath

(***************************************************************************)
(* Claims                                                                  *)
(***************************************************************************)
\* C1: every non-empty path an optimizer returns through the adapter starts
\* at S, ends at D, repeats no node and follows edges of the graph.
\* Stated for the genetic algorithm on valid requests; TLC refutes it.
C1_PathIntegrity ==
    (ValidRequest /\ ReturnedPath) => IsPath(G, result.path, src, dst)

\* C2: when simulated_annealing is called with a demand B, every edge of the
\* path it returns has capacity_mbps >= B.
C2_SaHardDemand ==
    (ReturnedPath /\ SaDemand # NoDemand) =>
        \A i \in Hops(result.path) :
            EdgeCapacityMbps(G, result.path[i], result.path[i+1]) >= SaDemand[1]

\* C2's case: SA ran with a demand, some S-D path of the graph is quicker
\* than the returned one but crosses an edge below the demand
C2_Witness ==
    /\ ReturnedPath /\ SaDemand # NoDemand /\ sa_iter > 0
    /\ \E q \in SimplePaths(G.E, src, dst) :
         /\ PathDelay(G, q) < PathDelay(G, result.path)
         /\ \E i \in Hops(q) : EdgeCapacityMbps(G, q[i], q[i+1]) < SaDemand[1]

\* the subgraph of exactly the edges whose capacity_mbps >= B
CapacitySubgraph(g, B) == { e \in g.E : g.cap[e] >= B }

C4_ValidatedOrBaseline ==
    (ValidRequest /\ ReturnedPath) =>
        \/ IsPath(G, result.path, src, dst) /\ result.path = ga_best_path
        \/ result.path \in BaselinePaths(G, src, dst, w) /\ result.notes # "OK"

\* C5: the total_cost of an adapter result equals the Metric Engine's
\* weighted_sum(compute(path, B), normalize(weights)) on the returned path,
\* with the request's demand and weights.
\* Stated for Q-Learning on valid requests; TLC refutes it.
C5_TotalCostIsEngineCost ==
    (ValidRequest /\ ReturnedPath) =>
        /\ ~ComputeRaises(G, result.path)
        /\ CostEQ(result.total_cost,
                  WeightedSum(Compute(G, result.path, params.demand_bw), w))

\* C6: a Q-Learning run started through the adapter with min_bandwidth = B
\* only returns paths whose edges have capacity >= B.
\* TLC refutes it.
C6_QlRespectsMinBandwidth ==
    (ValidRequest /\ ReturnedPath /\ params.min_bandwidth # NoDemand) =>
        \A i \in Hops(result.path) :
            EdgeCapacityMbps(G, result.path[i], result.path[i+1]) >= params.min_bandwidth[1]

\* C7: a call with S = D, with S missing from the graph or with weights
\* whose sum is not positive ends with an error and never returns a result
\* record.  Stated for Q-Learning; TLC refutes it.
C7_InvalidInputRaises ==
    (pc = "done" /\ InvalidRequest) => result.status = "raised"

\* a run that gave compare nothing to measure: it raised, or its result
\* has no path of two nodes or more
RunFailed == result.status = "raised" \/ Len(result.path) < 2

C9_FailOnlyWithoutValidPath ==
    pc = "rs_done" =>
        \A i \in 1 .. Len(rs_runs_data) :
            (rs_runs_data[i].algorithm = "SA" /\ rs_runs_data[i].status = "FAIL") =>
                \/ InvalidRequest
                \/ SimplePaths(CapacitySubgraph(G, params.demand_bw[1]), src, dst) = {}

\* C10: compare gives every run its own copy of the graph: no step of a
\* compare call changes the input graph or its pheromone (present or
\* absent), and every ACO run starts from the input graph's pheromone, with
\* the initial value where there is none.
C10_RunsGetOwnCopy ==
    [][call = "compare" =>
         /\ G' = G
         /\ pher'["G"] = pher["G"]
         /\ (pc = "start" /\ algo = "ACO") =>
               pher'[gobj'] = [e \in G.E |-> << PheromoneOr(pher["G"], e) >>]]_vars

\* C10's case: the first ACO run of a compare call found a path, and the
\* second has laid pheromone on its own copy
C10_Witness ==
    /\ call = "compare" /\ algo = "ACO" /\ cmp_run_id = 2 /\ pc = "done"
    /\ Len(cmp_runs_table) = 1 /\ cmp_runs_table[1].path # NoPath
    /\ aco_best_path # NoPath
    /\ pher[gobj] # pher["G"]

\* C11: compare runs ACO, GA, Q-Learning, SA in that order, each
\* max(N, 5) times with run ids 1..max(N, 5): a requested N below 5 becomes
\* 5 when compare starts, and the table compare returns has 4 * max(N, 5)
\* rows, row k being run ((k-1) mod n) + 1 of algorithm ((k-1) div n) + 1,
\* whether the runs succeeded or failed.
C11_FixedOrderAndCount ==
    /\ [][(call = "compare" /\ pc = "cmp_start" /\ pc' # "cmp_raised") =>
            cmp_num_runs' = IF cmp_num_runs < 5 THEN 5 ELSE cmp_num_runs]_vars
    /\ [](pc = "cmp_returned" =>
            /\ Len(cmp_runs_table) = 4 * cmp_num_runs
            /\ \A k \in 1 .. Len(cmp_runs_table) :
                 /\ cmp_runs_table[k].algorithm =
                      << "ACO", "GA", "QL", "SA" >>[((k - 1) \div cmp_num_runs) + 1]
                 /\ cmp_runs_table[k].run_id = ((k - 1) % cmp_num_runs) + 1)

\* C11's case: compare was asked for one run on the line graph (the calls
\* on the line ask for 1 or MinRuns + 1 runs) and has returned 4 * 5 rows,
\* some of failed runs and some of successful ones
C11_Witness ==
    /\ pc = "cmp_returned" /\ call = "compare" /\ G.E = LineEdges
    /\ cmp_num_runs = 5 /\ Len(cmp_runs_table) = 20
    /\ \E i, j \in 1 .. Len(cmp_runs_table) :
         cmp_runs_table[i].total_cost = Inf /\ cmp_runs_table[j].total_cost # Inf

\* the mean runtime over all the attempts of sm_runs, failed ones included
MeanOverAllAttempts(m) ==
    m.n * Len(sm_runs) = m.d * SumSeq([i \in 1 .. Len(sm_runs) |-> sm_runs[i].runtime_ms], Len(sm_runs))

\* C12: in the summary of an algorithm the cost statistics are over the
\* successful runs only and avg_runtime_ms is the mean runtime over all the
\* attempts, failed ones included, for any mix of successful and failed
\* runs, also when none succeeds; stated for compare's summary row and for
\* compute_summary's.  TLC refutes it.
C12_RuntimeOverAllAttempts ==
    pc = "sm_done" =>
        /\ MeanOverAllAttempts(sm_out.compare[1].avg_runtime)
        /\ MeanOverAllAttempts(sm_out.scenario[1].avg_runtime_ms)

\* C13: for every algorithm with a successful run, the path compare returns
\* in best_paths_by_algo is the path of one of that algorithm's runs whose
\* total_cost is the least of the algorithm's finite costs, whatever the
\* order of failed and successful runs.  TLC refutes it.
C13_BestPathHasBestCost ==
    pc = "cmp_returned" =>
        \A a \in 1 .. 4 :
            LET name == << "ACO", "GA", "QL", "SA" >>[a]
                rows == { k \in 1 .. Len(cmp_runs_table) : cmp_runs_table[k].algorithm = name }
                ok == { k \in rows : ~cmp_runs_table[k].total_cost.inf }
            IN  ok # {} =>
                  \E k \in ok :
                     /\ cmp_runs_table[k].path = cmp_best_paths_by_algo[a]
                     /\ \A j \in ok : ~CostLT(cmp_runs_table[j].total_cost,
                                               cmp_runs_table[k].total_cost)

\* C14: compute raises when the path is None or has fewer than two nodes,
\* or when some consecutive pair of it is not an edge of the graph, and
\* returns a PathMetrics otherwise; either way the graph is as it was.
C14_ComputeRaisesOrReturns ==
    /\ []((call = "engine" /\ pc # "eng_start") =>
            LET invalid == \/ Len(eng_path) < 2
                           \/ \E i \in 1 .. (Len(eng_path) - 1) :
                                 {eng_path[i], eng_path[i+1]} \notin G.E
            IN  /\ invalid <=> eng_out.status = "compute_raised"
                /\ ~invalid => eng_out.metrics = Compute(G, eng_path, eng_demand))
    /\ [][call = "engine" => (G' = G /\ pher' = pher)]_vars

\* C14's case: compute raised on a path of nodes of the graph, two or more,
\* in which a consecutive pair is not an edge
C14_Witness ==
    /\ call = "engine" /\ eng_out # << >> /\ eng_out.status = "compute_raised"
    /\ Len(eng_path) >= 2
    /\ \A i \in 1 .. Len(eng_path) : eng_path[i] \in GNodes

\* C15: compute sets feasible_for_demand exactly when the demand is None or
\* is at most the capacity_mbps of every edge of the path; with a demand B,
\* bottleneck_capacity_mbps >= B if and only if feasible_for_demand.
C15_FeasibleIffDemandFits ==
    (call = "engine" /\ pc # "eng_start" /\ eng_out.status # "compute_raised") =>
        LET m == eng_out.metrics
        IN  /\ m.feasible_for_demand <=>
                 \/ eng_demand = << >>
                 \/ \A i \in 1 .. (Len(eng_path) - 1) :
                       eng_demand[1] <= G.cap[{eng_path[i], eng_path[i+1]}]
            /\ eng_demand # << >> =>
                 (m.bottleneck_capacity_mbps >= eng_demand[1] <=> m.feasible_for_demand)

\* C15's case: the demand equals the least capacity on the path, another
\* edge of the path has more, and compute found the path feasible
C15_Witness ==
    /\ call = "engine" /\ pc = "eng_computed" /\ eng_demand # << >>
    /\ eng_out.metrics.feasible_for_demand
    /\ eng_out.metrics.bottleneck_capacity_mbps = eng_demand[1]
    /\ \E i \in 1 .. (Len(eng_path) - 1) : G.cap[{eng_path[i], eng_path[i+1]}] > eng_demand[1]

\* C16: weighted_sum raises exactly when the weights sum to zero or less;
\* otherwise it returns (wd*delay + wr*reliability_cost + ws*resource_cost)
\* / (wd + wr + ws), with the infeasibility penalty added if and only if
\* feasible_for_demand is false.
C16_WeightedSum ==
    (call = "engine" /\ pc = "eng_done" /\ eng_out.status # "compute_raised") =>
        LET m == eng_out.metrics
            total == w.wd + w.wr + w.ws
        IN  /\ eng_out.status = "sum_raised" <=> total <= 0
            /\ total > 0 =>
                 /\ eng_out.status = "scored" /\ ~eng_out.score.inf
                 /\ eng_out.score.pen <=> ~m.feasible_for_demand
                 /\ eng_out.score.n * total =
                      eng_out.score.d * (w.wd * m.total_delay_ms + w.wr * m.reliability_cost
                                         + w.ws * m.resource_cost)

\* C16's case: weights that do not sum to 1 and a path below the demand;
\* weighted_sum returned the normalized sum with the penalty
C16_Witness ==
    /\ call = "engine" /\ pc = "eng_done" /\ eng_out.status = "scored"
    /\ w.wd + w.wr + w.ws = 3 /\ w.den = 1
    /\ ~eng_out.metrics.feasible_for_demand /\ eng_out.score.pen

\* the scalar cost of a path: the engine's weighted_sum(compute(path))
ScalarCost(p) == WeightedSum(Compute(G, p, NoDemand), w)

\* C17: on a valid request, the scalar cost of the path an optimizer
\* returns is never below the scalar cost of the path the Baseline Router
\* (Dijkstra) finds on the same graph, S, D and weights.
C17_NeverBelowBaseline ==
    (ValidRequest /\ ReturnedPath /\ call = "run") =>
        /\ ~ComputeRaises(G, result.path)
        /\ \A b \in BaselinePaths(G, src, dst, w) :
             ~CostLT(ScalarCost(result.path), ScalarCost(b))

\* C17's case: an optimizer returned a path that costs more than the
\* Baseline Router's, on a valid request
C17_Witness ==
    /\ ValidRequest /\ ReturnedPath /\ call = "run" /\ algo = "GA"
    /\ \E b \in BaselinePaths(G, src, dst, w) : CostLT(ScalarCost(b), ScalarCost(result.path))

\* C18: two invocations of the same optimizer with the same graph,
\* (S, D, B, weights), parameters and seed return the same path and the
\* same total_cost.  Stated for ACO, called twice by the driver.  TLC
\* refutes it.
C18_SameInputsSameResult ==
    (pc = "done" /\ rr_first # << >>) =>
        /\ result.path = rr_first[1].path
        /\ result.total_cost = rr_first[1].total_cost

\* C19: an optimizer that reaches an outer-loop boundary (ACO iteration, GA
\* generation, Q-Learning episode, SA cooling step) while the cancellation flag
\* is set returns there, with notes "cancelled", instead of beginning the
\* next pass.  TLC refutes it: no loop reads a flag.
C19_CancelledAtBoundary ==
    [][(call = "run" /\ cancel_flag /\ OuterLoopBoundary) =>
          (pc' = "done" /\ result'.notes = "cancelled")]_vars

\* the moves an ant has made
AntMoves == IF ant.path = << >> THEN 0 ELSE Len(ant.path) - 1

Tau(e) == PheromoneOr(pher[gobj], e)

\* C21: through any sequence of evaporate_pheromone and update_pheromone
\* calls, with 0 < rho < 1, Q > 0 and every edge starting within
\* [0.01, 10000], every edge's pheromone stays within [0.01, 10000];
\* evaporation never increases an edge's pheromone and a deposit never
\* decreases it.
C21_PheromoneBounds ==
    /\ [](call = "pheromone" =>
            \A e \in G.E : PheromoneFloor <= Tau(e) /\ Tau(e) <= PheromoneCeiling)
    /\ [][(call = "pheromone" /\ ph_calls' = ph_calls + 1 /\ pc' = "ph_evaporated") =>
            \A e \in G.E : PheromoneOr(pher'[gobj], e) <= Tau(e)]_vars
    /\ [][(call = "pheromone" /\ ph_calls' = ph_calls + 1 /\ pc' = "ph_updated") =>
            \A e \in G.E : PheromoneOr(pher'[gobj], e) >= Tau(e)]_vars
\* an evaporation that stopped at tau_min on one edge, after a deposit
\* that had raised another edge above it
C21_Witness ==
    /\ call = "pheromone" /\ pc = "ph_evaporated" /\ ph_calls >= 2
    /\ \E e \in G.E : Tau(e) = PheromoneFloor
    /\ \E e \in G.E : Tau(e) > PheromoneFloor

\* C22: in every ACO iteration of _wrap_aco the pheromone update comes after
\* all ants of the iteration have walked, and the update is the evaporation
\* of every edge followed by the deposits of the iteration's successful
\* ants.  TLC refutes it: _wrap_aco deposits first and evaporates after.
C22_EvaporationBeforeDeposits ==
    [][(call = "run" /\ algo = "ACO" /\ pc = "aco_loop" /\ aco_iter' = aco_iter + 1) =>
          /\ aco_ant = params.num_ants
          /\ pher'[gobj] = UpdateAll(EvaporatePheromone(pher[gobj], EvaporationKeptTenths),
                                     aco_iteration_paths, 1)]_vars

\* C23: when create_initial_population gives up with fewer than pop_size
\* paths (possibly none), run_genetic_algorithm goes on with the smaller
\* population and ends normally, with its best individual or with no path;
\* it does not fail because the population is smaller than the number of
\* parents to select.  TLC refutes it.
C23_SmallPopulationAccepted ==
    (call = "run" /\ algo = "GA" /\ pc = "done" /\ ValidRequest
        /\ Len(ga_population) < params.pop_size) => result.status = "returned"

\* selection has scored ga_population in this step of a generation
SelectionScored ==
    /\ call = "run" /\ algo = "GA" /\ pc = "ga_gen" /\ ga_gen < params.generations
    /\ ~SelectionRaises(ga_population, params.pop_size \div 2)
\* best_cost is the engine's cost of best_path, or inf when there is none
BestIsEngineCost ==
    IF ga_best_path = NoPath THEN ga_best_cost = Inf
    ELSE /\ ~ComputeRaises(G, ga_best_path) /\ ~NormalizedRaises(w)
         /\ ga_best_cost = WeightedSum(Compute(G, ga_best_path, NoDemand), w)

IsWalk(p) ==
    /\ p # NoPath /\ p[1] = src /\ p[Len(p)] = dst
    /\ \A i \in 1 .. (Len(p) - 1) : p[i] # p[i+1] /\ {p[i], p[i+1]} \in G.E
\* the parents have no node in common but src and dst
ShareOnlyEndpoints ==
    \A i \in 1 .. Len(xo.parent1), j \in 1 .. Len(xo.parent2) :
        xo.parent1[i] = xo.parent2[j] => xo.parent1[i] \in { src, dst }
\* the children are the two parents, in either order
ParentsReturned ==
    \/ xo.child1 = xo.parent1 /\ xo.child2 = xo.parent2
    \/ xo.child1 = xo.parent2 /\ xo.child2 = xo.parent1

C26_EpsilonAboveFloor ==
    /\ [](call = "epsilon" => ~EpsGT(EpsilonMin, eps.epsilon))
    /\ [](call = "epsilon" /\ eps.ep = 0 => eps.epsilon = EpsilonStart)
    /\ [][call = "epsilon" => ~EpsGT(eps'.epsilon, eps.epsilon)]_vars


\* the Q-table after update_q(state, action, -1000, action)
LoopPenalised(action) ==
    ql_q' = UpdateQ(G, ql_q, ql_state, action, (0 - 1000) * QScale, action,
                    params.alpha, params.gamma)

\* one pass of train's inner loop from a state that is a node and not D
EpisodeTransition ==
    LET feasible == GetValidNeighbors(G, ql_state)
    IN  IF feasible = {}
        THEN ql_q' = ql_q /\ ql_ep' = ql_ep + 1
        ELSE \/ \E action \in feasible :
                  /\ InPath(action, ql_path)
                  /\ LoopPenalised(action) /\ ql_ep' = ql_ep + 1
             \/ \E action \in feasible :
                  /\ ~InPath(action, ql_path)
                  /\ ql_path' = Append(ql_path, action) /\ ql_ep' = ql_ep

\* train has returned or raised
TrainOver == pc = "done" \/ (pc = "ql_train" /\ ql_ep >= params.episodes)

FeasibleUnvisited(p) ==
    { n \in Neighbors(G, Last(p)) :
        G.cap[{Last(p), n}] >= bp.min_bandwidth /\ ~InPath(n, p) }
\* every step of p moved to a feasible unvisited neighbour of maximal Q
GreedySteps(p) ==
    \A i \in 1 .. (Len(p) - 1) :
        LET before == SubSeq(p, 1, i)
        IN  /\ p[i+1] \in FeasibleUnvisited(before)
            /\ \A m \in FeasibleUnvisited(before) :
                 bp.q[<< p[i], p[i+1] >>] >= bp.q[<< p[i], m >>]

\* C28: for any Q-table, get_best_path returns either None, and then some
\* walk of such steps from S ends, short of D, at a node without a feasible
\* unvisited neighbour, or a path that starts at S, ends at D, repeats no
\* node and at every step moved to a feasible unvisited neighbour whose
\* Q-value is maximal among the feasible unvisited neighbours.
C28_BestPath ==
    (call = "best_path" /\ pc = "bp_done") =>
        IF bp.out = NoPath
        THEN \E p \in UNION { [1 .. k -> GNodes] : k \in 1 .. Cardinality(GNodes) } :
                /\ p[1] = src /\ ~InPath(dst, p)
                /\ GreedySteps(p) /\ FeasibleUnvisited(p) = {}
        ELSE /\ bp.out[1] = src /\ Last(bp.out) = dst
             /\ NoRepeat(bp.out) /\ GreedySteps(bp.out)

\* C28's case: get_best_path returned a path of two steps or more, and at
\* one of them passed over an unvisited neighbour of higher Q whose edge is
\* below min_bandwidth
C28_Witness ==
    /\ call = "best_path" /\ pc = "bp_done"
    /\ bp.out # NoPath /\ Len(bp.out) >= 3
    /\ \E i \in 1 .. (Len(bp.out) - 1) :
         \E n \in Neighbors(G, bp.out[i]) :
            /\ ~InPath(n, SubSeq(bp.out, 1, i))
            /\ G.cap[{bp.out[i], n}] < bp.min_bandwidth
            /\ bp.q[<< bp.out[i], n >>] > bp.q[<< bp.out[i], bp.out[i+1] >>]


\* simulated_annealing holds a solution: past the initial path, not yet out
SaHoldsSolution ==
    algo = "SA" /\ pc \in {"sa_loop", "sa_final", "done"} /\ sa_best # NoPath

\* C29: at every iteration of simulated_annealing best_score <= current_score
\* and best_score never increases; best_m is the metrics computed for the
\* best path and best_score the weighted sum of best_m, and these are what
\* is returned; best_score is the minimum score over the initial solution
\* and all accepted candidates: it starts as the score of the initial
\* solution and every iteration leaves it the lower of itself and the score
\* of the solution then current.
C29_BestScore ==
    /\ [](SaHoldsSolution =>
            /\ ~CostLT(sa_current_score, sa_best_score)
            /\ sa_best_m = Compute(G, sa_best, SaDemand)
            /\ CostEQ(sa_best_score, WeightedSum(sa_best_m, w)))
    /\ []((SaHoldsSolution /\ pc = "done" /\ ReturnedPath) =>
            (result.path = sa_best /\ result.total_cost = sa_best_score))
    /\ [][(algo = "SA" /\ pc = "start" /\ pc' # "done" /\ sa_best' # NoPath) =>
            (sa_best' = sa_current' /\ sa_best_score' = sa_current_score')]_vars
    /\ [][(algo = "SA" /\ pc = "sa_loop") =>
            /\ ~CostLT(sa_best_score, sa_best_score')
            /\ sa_best_score' = IF CostLT(sa_current_score', sa_best_score)
                                THEN sa_current_score' ELSE sa_best_score]_vars

\* C29's case: simulated_annealing returned a best path that is not the
\* initial one, after it had accepted a candidate that scores worse
C29_Witness ==
    /\ SaHoldsSolution /\ pc = "done" /\ ReturnedPath /\ sa_iter >= 2
    /\ CostLT(sa_best_score, sa_current_score)
    /\ \E first \in ShortestPaths(G, BuildFeasibleSubgraph(G, SaDemand), src, dst) :
         CostLT(sa_best_score, WeightedSum(Compute(G, first, SaDemand), w))


\* C30: every ACO invocation through run() starts with every edge's
\* pheromone equal to the initial pheromone: when _wrap_aco has initialised
\* the graph it was given, each edge of it holds initial_pheromone, also in
\* the second of two successive runs on the same graph object.
C30_StartsAtInitialPheromone ==
    [][(call = "run" /\ algo = "ACO" /\ pc = "start") =>
         \A e \in G.E : pher'[gobj'][e] = << InitialPheromone >>]_vars

=========================================================================
